---- MODULE Spec2Model ----
(***************************************************************************)
(* DOCSim: seeded generation of competitors, field selection, gate draw,   *)
(* race simulation front end, time/record conversion and the career        *)
(* mutations (training, feeding).  Every pseudo-random draw of the program  *)
(* is a nondeterministic choice; a uniform draw rng.random() is a number of *)
(* thousandths 0..999.  Real-valued quantities are fixed-point integers in  *)
(* the unit named next to each definition.                                  *)
(***************************************************************************)
EXTENDS Integers, Sequences, FiniteSets, TLC

VARIABLES breed, pool, field, gates, player, train, records, timed, sim,
          world, main

vars == <<breed, pool, field, gates, player, train, records, timed, sim,
          world, main>>

(***************************************************************************)
(* Common helpers                                                           *)
(***************************************************************************)
Min2(a, b) == IF a < b THEN a ELSE b
Max2(a, b) == IF a > b THEN a ELSE b

\* Python int(x) on a fixed-point number x of scale s: truncation toward zero.
Trunc(x, s) == IF x >= 0 THEN x \div s ELSE -((-x) \div s)

\* Python round(num/den), den > 0, for an exactly represented quotient:
\* nearest integer, ties to the even one.
RoundHalfEven(num, den) ==
  LET q == num \div den
      r == num % den
  IN  IF 2 * r > den \/ (2 * r = den /\ q % 2 = 1) THEN q + 1 ELSE q

keys == <<"start", "corner", "oob", "competing", "tenacious", "spurt">>
ExternalKey == {keys[i] : i \in 1..6}

MIN_V == 8
MAX_V == 48

clamp_int(x, lo, hi) == IF x < lo THEN lo ELSE IF x > hi THEN hi ELSE x

\* The six externals as a record, each entry evaluated once.
MkExt(f) ==
  [start |-> f["start"], corner |-> f["corner"], oob |-> f["oob"],
   competing |-> f["competing"], tenacious |-> f["tenacious"], spurt |-> f["spurt"]]

(***************************************************************************)
(* Genetic generator (src/breeding.py)                                      *)
(***************************************************************************)
safe_get(obj, key) == obj[key]

\* The average rounded up (not what the code does).
ceil_avg(a, b) == (a + b + 1) \div 2

floor_avg(a, b) == (a + b) \div 2

breed_internals(sire, dam) ==
  [stamina |-> floor_avg(sire.stamina, dam.stamina),
   speed   |-> floor_avg(sire.speed, dam.speed),
   sharp   |-> floor_avg(sire.sharp, dam.sharp)]

\* MIN_V + (MAX_V - MIN_V) * (n ** gamma) in units of 1/10000, rounded down,
\* tabulated from the source expression with gamma = 1.6 and
\* n = clamp(((a0 + b0) / 2) / denom + 0.03 * min(t_total, 6), 0, 1).
\* Row = min(t_total, 6) + 1; column = a0 + b0 + 1 for denom 15 (a0, b0 <= 15).
Expected15 ==
  << <<80000, 81732, 85251, 90047, 95920, 102751, 110458, 118978, 128262, 138271, 148970, 160333, 172332, 184948, 198160, 211950, 226304, 241207, 256645, 272606, 289080, 306056, 323524, 341475, 359900, 378792, 398143, 417946, 438194, 458880, 480000>>,
     <<81463, 84838, 89517, 95288, 102028, 109650, 118091, 127300, 137238, 147870, 159167, 171104, 183659, 196812, 210546, 224844, 239692, 255077, 270987, 287410, 304336, 321755, 339658, 358037, 376882, 396188, 415946, 436149, 456792, 477868, 480000>>,
     <<84437, 88997, 94666, 101313, 108850, 117211, 126346, 136213, 146777, 158008, 169882, 182376, 195470, 209147, 223389, 238183, 253515, 269373, 285745, 302621, 319991, 337846, 356178, 374977, 394237, 413950, 434109, 454708, 475741, 480000, 480000>>,
     <<88488, 94053, 100607, 108058, 116340, 125399, 135194, 145690, 156856, 168667, 181100, 194135, 207753, 221940, 236679, 251958, 267764, 284085, 300911, 318232, 336039, 354323, 373076, 392290, 411958, 432073, 452629, 473619, 480000, 480000, 480000>>,
     <<93450, 99910, 107275, 115476, 124459, 134183, 144610, 155710, 167457, 179829, 192804, 206366, 220496, 235181, 250406, 266160, 282430, 299206, 316478, 334237, 352474, 371180, 390348, 409971, 430042, 450554, 471500, 480000, 480000, 480000, 480000>>,
     <<99222, 106500, 114620, 123527, 133178, 143536, 154570, 166254, 178564, 191480, 204984, 219058, 233688, 248860, 264561, 280780, 297506, 314729, 332439, 350629, 369288, 388411, 407989, 428015, 448483, 469386, 480000, 480000, 480000, 480000, 480000>>,
     <<105733, 113771, 122602, 132181, 142469, 153437, 165057, 177306, 190162, 203607, 217625, 232200, 247318, 262967, 279135, 295811, 312985, 330647, 348788, 367401, 386478, 406011, 425992, 446416, 467277, 480000, 480000, 480000, 480000, 480000, 480000>> >>

\* The same for denom 16 (a0 = 16 or b0 = 16): column = a0 + b0 - 15.
Expected16 ==
  << <<211950, 225391, 239314, 253710, 268568, 283878, 299632, 315822, 332439, 349478, 366930, 384790, 403052, 421709, 440756, 460188, 480000>>,
     <<224844, 238748, 253125, 267964, 283257, 298993, 315166, 331767, 348788, 366224, 384068, 402314, 420955, 439987, 459403, 479200, 480000>>,
     <<238183, 252541, 267362, 282636, 298355, 314511, 331094, 348100, 365519, 383347, 401576, 420202, 439218, 458619, 478401, 480000, 480000>>,
     <<251958, 266761, 282017, 297718, 313856, 330423, 347411, 364815, 382626, 400839, 419449, 438450, 457836, 477602, 480000, 480000, 480000>>,
     <<266160, 281398, 297082, 313202, 329752, 346724, 364110, 381906, 400103, 418697, 437682, 457053, 476804, 480000, 480000, 480000, 480000>>,
     <<280780, 296446, 312549, 329082, 346037, 363407, 381186, 399368, 417946, 436916, 456271, 476007, 480000, 480000, 480000, 480000, 480000>>,
     <<295811, 311897, 328413, 345351, 362704, 380467, 398633, 417195, 436149, 455489, 475210, 480000, 480000, 480000, 480000, 480000, 480000>> >>

\* The triples (excess, room, total_room), coded excess * 100000 + room * 1000 +
\* total_room, with excess <= total_room, room <= 40 and total_room <= 240 for
\* which excess * room / total_room lies exactly between two integers and the
\* double product excess * (room / total_room) falls on the other side of the
\* tie than round-half-even of the exact quotient.
FloatTieOff ==
  { 1115022, 1130044, 1315026, 1330052, 1921038, 2215044, 2225044, 2230088,
    2615052, 2630104, 2729054, 2829056, 2931058, 3529070, 3739074, 3821076,
    3925078, 3931078, 4234056, 4323086, 4331086, 4415088, 4425088, 4430176,
    4529090, 4535050, 4703094, 4706188, 4731094, 4927098, 5131102, 5215104,
    5230208, 5429108, 5507110, 5509066, 5512088, 5514220, 5515110, 5518132,
    5521154, 5524176, 5527198, 5530220, 5531110, 5629112, 5831116, 6911138,
    7029140, 7107142, 7131142, 7439148, 7514100, 7521150, 7528200, 7533090,
    7621152, 7739154, 7825156, 7831156, 8307166, 8325166, 8434112, 8513170,
    8623172, 8631172, 8713174, 8734116, 8815176, 8825176, 9029180, 9035100,
    9125182, 9334124, 9403188, 9431188, 9507190, 9707194, 9731194, 9827196,
    9913198, 9915110, 9918132, 9921154, 9924176, 9927198, 9930220, 9938132,
    10231204, 10315206, 10331206, 10415208, 10518140, 10527210, 10529210, 10707214,
    10715214, 10727214, 10731214, 10829216, 11007220, 11009132, 11012176, 11015220,
    11031220, 11107222, 11131222, 11229224, 11331226, 11631232, 11710156, 11715234,
    13526180, 14702196, 15014200, 15033180, 15314204, 16834224, 17434232, 17528200,
    18035200, 18727198, 18730220, 19815220 }

anom_p == 35
anom_mag == 140
noise_scale == 44

expected(a0, b0, t_total) ==
  LET t6 == Max2(0, Min2(t_total, 6))
  IN  IF a0 = 16 \/ b0 = 16
        THEN Expected16[t6 + 1][a0 + b0 - 15]
        ELSE Expected15[t6 + 1][a0 + b0 + 1]

\* rng.tri_centered() in thousandths: three uniform draws minus 1.5.
tri_centered(d) == (d.u1 + d.u2 + d.u3) - 1500

\* The per-key pass without the final clamp to [MIN_V, MAX_V].
birth_value_unclamped(sire, dam, k, d, t_total) ==
  LET a0 == clamp_int(safe_get(sire, k), 0, 16)
      b0 == clamp_int(safe_get(dam, k), 0, 16)
      noise0 == tri_centered(d) * noise_scale
      p_pos == Min2(700, 500 + 50 * t_total)
      sign == IF d.us < p_pos THEN 1 ELSE -1
      noise == IF d.ua < anom_p THEN noise0 + sign * (d.um * anom_mag) ELSE noise0
  IN  Trunc(expected(a0, b0, t_total) + noise, 10000)

\* One pass of the per-key loop: the stat before cap enforcement.  d holds the
\* draws the pass may consume: u1..u3 the triangular noise, ua the anomaly
\* test, us the sign and um the magnitude of the anomaly.
birth_value(sire, dam, k, d, t_total) ==
  LET a0 == clamp_int(safe_get(sire, k), 0, 16)
      b0 == clamp_int(safe_get(dam, k), 0, 16)
      noise0 == tri_centered(d) * noise_scale
      p_pos == Min2(700, 500 + 50 * t_total)
      sign == IF d.us < p_pos THEN 1 ELSE -1
      noise == IF d.ua < anom_p THEN noise0 + sign * (d.um * anom_mag) ELSE noise0
      v == Trunc(expected(a0, b0, t_total) + noise, 10000)
  IN  clamp_int(v, MIN_V, MAX_V)

birth_before_cap(sire, dam, draws, t_total) ==
  MkExt([k \in ExternalKey |-> birth_value(sire, dam, k, draws[k], t_total)])

\* The sum of f[ks[j]] for j in lo..hi, by halves.
RECURSIVE SumRange(_, _, _, _)
SumRange(f, ks, lo, hi) ==
  IF lo > hi THEN 0
  ELSE IF lo = hi THEN f[ks[lo]]
  ELSE LET mid == (lo + hi) \div 2
       IN  SumRange(f, ks, lo, mid) + SumRange(f, ks, mid + 1, hi)

\* The sum of f over the keys ks from position i on.
SumSeq(f, ks, i) == SumRange(f, ks, i, Len(ks))

sum_ext(d) == SumSeq(d, keys, 1)

\* The proportional cut rounded up.
prop_cut_rounded_up(excess, room, total_room) ==
  (excess * room + total_room - 1) \div total_room

\* int(round(excess * (room / total_room))).
prop_cut(excess, room, total_room) ==
  LET q == (excess * room) \div total_room
      r == (excess * room) % total_room
      code == excess * 100000 + room * 1000 + total_room
  IN  IF 2 * r = total_room /\ excess <= total_room /\ code \in FloatTieOff
        THEN (IF q % 2 = 1 THEN q ELSE q + 1)
        ELSE RoundHalfEven(excess * room, total_room)

\* sum(r for _, r in reducibles)
total_room_of(out) ==
  sum_ext(MkExt([k \in ExternalKey |-> IF out[k] > MIN_V THEN out[k] - MIN_V ELSE 0]))

\* One iteration of the proportional loop that reaches the inner for.
prop_pass(out, cap_sum) ==
  LET excess == sum_ext(out) - cap_sum
      total_room == total_room_of(out)
  IN  MkExt([k \in ExternalKey |->
         IF out[k] > MIN_V
           THEN LET cut == prop_cut(excess, out[k] - MIN_V, total_room)
                IN  IF cut <= 0 THEN out[k] ELSE Max2(MIN_V, out[k] - cut)
           ELSE out[k]])

\* for _ in range(20): stop at the cap, or when nothing is reducible.
RECURSIVE prop_loop(_, _, _)
prop_loop(out, cap_sum, i) ==
  IF i = 20 \/ sum_ext(out) <= cap_sum THEN out
  ELSE IF total_room_of(out) <= 0 THEN out
  ELSE prop_loop(prop_pass(out, cap_sum), cap_sum, i + 1)

\* max(keys, key=...): the first key, in key order, that holds the maximum.
kmax_of(out) ==
  LET i == CHOOSE i \in 1..6 :
             /\ \A j \in 1..6 : out[keys[j]] <= out[keys[i]]
             /\ \A j \in 1..(i - 1) : out[keys[j]] < out[keys[i]]
  IN  keys[i]

RECURSIVE greedy_loop(_, _)
greedy_loop(out, cap_sum) ==
  IF sum_ext(out) > cap_sum
    THEN LET kmax == kmax_of(out)
         IN  IF out[kmax] <= MIN_V THEN out
             ELSE greedy_loop([out EXCEPT ![kmax] = @ - 1], cap_sum)
    ELSE out

\* Cap enforcement by the proportional loop alone, without the greedy phase.
cap_enforcement_proportional_only(out, cap_sum) == prop_loop(out, cap_sum, 0)

cap_enforcement(out, cap_sum) == greedy_loop(prop_loop(out, cap_sum, 0), cap_sum)

t_total_of(genetic_tokens_sire, genetic_tokens_dam) ==
  Max2(0, genetic_tokens_sire + genetic_tokens_dam)

adjusted_cap(cap_sum, t_total) == Min2(180, cap_sum + Min2(4 * t_total, 20))

compute_birth_ext_8_48_from_parents(sire, dam, draws, cap_sum, tok_sire, tok_dam) ==
  LET t_total == t_total_of(tok_sire, tok_dam)
  IN  cap_enforcement(birth_before_cap(sire, dam, draws, t_total),
                      adjusted_cap(cap_sum, t_total))

(***************************************************************************)
(* Field selection (src/cpu_pool.py).  Percentiles and band shifts are in   *)
(* hundredths.                                                              *)
(***************************************************************************)
Slot == {"1R", "2R", "3R", "4R", "5R", "G1"}

BANDS ==
  [slot \in Slot |->
     CASE slot = "1R" -> <<20, 80>>
       [] slot = "2R" -> <<25, 85>>
       [] slot = "3R" -> <<50, 95>>
       [] slot = "4R" -> <<30, 85>>
       [] slot = "5R" -> <<40, 90>>
       [] slot = "G1" -> <<65, 100>>]

\* f"CPU-R{round_num:02d}-{idx:02d}": distinct for distinct (round_num, idx).
cpu_id(round_num, idx) == <<"CPU", round_num, idx>>

\* The shifted, clamped percentile window as 0-based positions lo..hi of
\* sorted_ids.  int(n * p) is the floor of the exact product for the band
\* shifts used here.
window_lo(n, slot, band_shift) ==
  (n * clamp_int(BANDS[slot][1] + band_shift, 0, 100)) \div 100

window_hi(n, slot, band_shift) ==
  LET lo_p == clamp_int(BANDS[slot][1] + band_shift, 0, 100)
      hi_p0 == clamp_int(BANDS[slot][2] + band_shift, 0, 100)
      hi_p == IF hi_p0 < lo_p THEN lo_p ELSE hi_p0
  IN  Max2(window_lo(n, slot, band_shift), (n * hi_p) \div 100 - 1)

\* ids[lo:hi+1]
candidates_of(ids, slot, band_shift) ==
  LET n == Len(ids)
  IN  SubSeq(ids, window_lo(n, slot, band_shift) + 1,
             Min2(window_hi(n, slot, band_shift) + 1, n))

SeqToSet(q) == {q[i] : i \in 1..Len(q)}

\* Every order rng.shuffle can leave a list in.
RECURSIVE Shuffles(_)
Shuffles(S) ==
  IF S = {} THEN {<< >>}
  ELSE UNION {{<<x>> \o t : t \in Shuffles(S \ {x})} : x \in S}

\* First pass: ids not yet used for the slot, in shuffled order, as if the
\* used check were missing.
RECURSIVE first_pass_ignoring_used(_, _, _, _, _)
first_pass_ignoring_used(cands, i, used, chosen, field_size) ==
  IF i > Len(cands) THEN chosen
  ELSE LET c2 == Append(chosen, cands[i])
       IN  IF Len(c2) = field_size THEN c2
           ELSE first_pass_ignoring_used(cands, i + 1, used, c2, field_size)

\* First pass: ids not yet used for the slot, in shuffled order.
RECURSIVE first_pass(_, _, _, _, _)
first_pass(cands, i, used, chosen, field_size) ==
  IF i > Len(cands) THEN chosen
  ELSE LET c2 == IF cands[i] \notin used THEN Append(chosen, cands[i]) ELSE chosen
       IN  IF Len(c2) = field_size THEN c2
           ELSE first_pass(cands, i + 1, used, c2, field_size)

\* Fallback pass: any candidate not chosen yet, used or not.
RECURSIVE second_pass(_, _, _, _)
second_pass(cands, i, chosen, field_size) ==
  IF i > Len(cands) THEN chosen
  ELSE LET c2 == IF cands[i] \notin SeqToSet(chosen)
                   THEN Append(chosen, cands[i]) ELSE chosen
       IN  IF Len(c2) = field_size THEN c2
           ELSE second_pass(cands, i + 1, c2, field_size)

\* The ids chosen from the shuffled candidates.
chosen_ids(shuffled, used, field_size) ==
  LET c1 == first_pass(shuffled, 1, used, << >>, field_size)
  IN  IF Len(c1) < field_size THEN second_pass(shuffled, 1, c1, field_size) ELSE c1

\* [m[i] for i in chosen if i in m]
horses_of(horses, chosen) ==
  LET m == [id \in {horses[j].id : j \in 1..Len(horses)} |->
              horses[CHOOSE j \in 1..Len(horses) :
                       /\ horses[j].id = id
                       /\ \A j2 \in (j + 1)..Len(horses) : horses[j2].id # id]]
      RECURSIVE pick(_)
      pick(i) == IF i > Len(chosen) THEN << >>
                 ELSE IF chosen[i] \in DOMAIN m THEN <<m[chosen[i]]>> \o pick(i + 1)
                 ELSE pick(i + 1)
  IN  pick(1)

\* An insertion at the front, whatever the ratings.
insert_at_front(sorted, h) == <<h>> \o sorted

\* sorted(horses, key=rating_base): a stable insertion sort, ids returned.
RECURSIVE insert_by_rating(_, _)
insert_by_rating(sorted, h) ==
  IF sorted = << >> THEN <<h>>
  ELSE IF Head(sorted).rating_base <= h.rating_base
         THEN <<Head(sorted)>> \o insert_by_rating(Tail(sorted), h)
         ELSE <<h>> \o sorted

RECURSIVE sorted_by_rating(_, _)
sorted_by_rating(horses, i) ==
  IF i = 0 THEN << >>
  ELSE insert_by_rating(sorted_by_rating(horses, i - 1), horses[i])

sorted_ids_of(horses) ==
  LET q == sorted_by_rating(horses, Len(horses))
  IN  [i \in 1..Len(q) |-> q[i].id]

(***************************************************************************)
(* Rating (src/rating.py) and pool construction (src/cpu_pool.py).         *)
(* Ratings are in thousandths.                                              *)
(***************************************************************************)
\* The largest s in lo..hi with s * s <= x.
RECURSIVE isqrt_between(_, _, _)
isqrt_between(x, lo, hi) ==
  IF lo >= hi THEN lo
  ELSE LET mid == (lo + hi + 1) \div 2
       IN  IF mid * mid <= x THEN isqrt_between(x, mid, hi)
           ELSE isqrt_between(x, lo, mid - 1)

\* math.sqrt on a non-negative integer, rounded down.
isqrt(x) == isqrt_between(x, 0, 46340)

ext_sum(h) == sum_ext(h.externals)

int_sum(h) == h.internals.stamina + h.internals.speed + h.internals.sharp

RECURSIVE SumInts(_, _)
SumInts(horses, i) ==
  IF i = 0 THEN 0 ELSE int_sum(horses[i]) + SumInts(horses, i - 1)

RECURSIVE SumSquares(_, _)
SumSquares(horses, i) ==
  IF i = 0 THEN 0
  ELSE int_sum(horses[i]) * int_sum(horses[i]) + SumSquares(horses, i - 1)

\* The pool statistics as exact integers: mu = total / n and
\* var = q / n^2 with n = max(1, len).  sd is sqrt(var), or 1 when the
\* variance is not above 1e-9, which for integers means q = 0.
compute_pool_int_stats(horses) ==
  LET len == Len(horses)
      n == Max2(1, len)
      total == SumInts(horses, len)
  IN  [n |-> n, total |-> total,
       q |-> n * SumSquares(horses, len) - total * total]

\* The square root taken whatever the variance (not what the code does).
pool_int_sd_unguarded(stats) == isqrt(stats.q * 1000000) \div stats.n

\* 1000 * sd, rounded down: sd = sqrt(var) = sqrt(q) / n if var > 1e-9, else 1.0.
pool_int_sd_milli(stats) ==
  IF stats.q <= 0 THEN 1000 ELSE isqrt(stats.q * 1000000) \div stats.n

\* 1000 * z for z = (int_sum - mu) / sd.
z_milli(isum, stats) ==
  IF stats.q <= 0 THEN ((stats.n * isum - stats.total) * 1000) \div stats.n
  ELSE ((stats.n * isum - stats.total) * 1000000) \div isqrt(stats.q * 1000000)

\* 1000 * (0.55 * en + 0.45 * inn)
compute_rating(h, stats) ==
  LET en == ((ext_sum(h) - 48) * 100000) \div 240
      inn == z_milli(int_sum(h), stats) * 15 + 50000
  IN  (55 * en + 45 * inn) \div 100

\* Rounds of a career cycle.
Rounds == 1..16

\* mid + (v - mid) * rm with rm = 1 + (round_num - 1) * 0.35 / 15, rounded
\* half to even and clamped.
scale_external(v, round_num) ==
  clamp_int(28 + RoundHalfEven((v - 28) * (300 + 7 * (round_num - 1)), 300), 8, 48)

\* mult = 0.95 + 0.05 * rm = (6000 + 7 * (round_num - 1)) / 6000
scale_internals(i, round_num) ==
  [stamina |-> RoundHalfEven(i.stamina * (6000 + 7 * (round_num - 1)), 6000),
   speed   |-> RoundHalfEven(i.speed * (6000 + 7 * (round_num - 1)), 6000),
   sharp   |-> RoundHalfEven(i.sharp * (6000 + 7 * (round_num - 1)), 6000)]

\* int(round(base + gauss)) clamped to 0..255, base = (sire.ac + dam.ac) / 2.
breed_ac(sire, dam, gauss) ==
  clamp_int(RoundHalfEven(sire.ac + dam.ac + 2 * gauss, 2), 0, 255)

\* A leg type that also compares CORNER (not what the code does).
derive_leg_type_with_corner(e) ==
  LET hi == CHOOSE x \in {e[k] : k \in ExternalKey} : \A k \in ExternalKey : e[k] <= x
      lo == CHOOSE x \in {e[k] : k \in ExternalKey} : \A k \in ExternalKey : e[k] >= x
      greater == Cardinality({k \in ExternalKey : e[k] > e["start"]})
  IN  IF hi - lo <= 3 THEN "AL"
      ELSE IF greater = 0 THEN "FR"
      ELSE IF greater = 1 THEN "SD"
      ELSE IF greater = 2 THEN "LS"
      ELSE "SR"

derive_leg_type(e) ==
  LET compare == {"start", "oob", "competing", "tenacious", "spurt"}
      hi == CHOOSE x \in {e[k] : k \in compare} : \A k \in compare : e[k] <= x
      lo == CHOOSE x \in {e[k] : k \in compare} : \A k \in compare : e[k] >= x
      greater == Cardinality({k \in compare : e[k] > e["start"]})
  IN  IF hi - lo <= 3 THEN "AL"
      ELSE IF greater = 0 THEN "FR"
      ELSE IF greater = 1 THEN "SD"
      ELSE IF greater = 2 THEN "LS"
      ELSE "SR"

derive_style_fr_sr(e) == derive_leg_type(e)

\* The externals of a pool foal as bred, before the round scaling.
pool_birth_ext(c) ==
  compute_birth_ext_8_48_from_parents(c.sire, c.dam, c.draws, 160, 0, 0)

\* One iteration of the pool loop: the foal at index idx from the draws c.
pool_horse(round_num, idx, c) ==
  LET ext == pool_birth_ext(c)
      ext2 == MkExt([k \in ExternalKey |-> scale_external(ext[k], round_num)])
  IN  [id |-> cpu_id(round_num, idx),
       name |-> <<"NAME", round_num, idx>>,
       sex |-> c.sex,
       style |-> derive_style_fr_sr(ext2),
       ac |-> breed_ac(c.sire, c.dam, c.gauss),
       internals |-> scale_internals(breed_internals(c.sire, c.dam), round_num),
       externals |-> ext2]

\* for idx in range(pool_size): horses.append(...)
RECURSIVE pool_horses(_, _, _)
pool_horses(round_num, foals, i) ==
  IF i = 0 THEN << >>
  ELSE Append(pool_horses(round_num, foals, i - 1),
              pool_horse(round_num, i - 1, foals[i]))

\* for h in horses: h.rating_base = compute_rating(h, mu, sd)
RECURSIVE with_rating_base(_, _, _)
with_rating_base(horses, stats, i) ==
  IF i = 0 THEN << >>
  ELSE LET h == horses[i]
       IN  Append(with_rating_base(horses, stats, i - 1),
                  [id |-> h.id, name |-> h.name, sex |-> h.sex, style |-> h.style,
                   ac |-> h.ac, internals |-> h.internals,
                   externals |-> h.externals,
                   rating_base |-> compute_rating(h, stats)])

\* The pool for round_num from the per-foal draws.
build_round_pool(round_num, foals) ==
  LET horses0 == pool_horses(round_num, foals, Len(foals))
      stats == compute_pool_int_stats(horses0)
      horses == with_rating_base(horses0, stats, Len(horses0))
  IN  [built |-> TRUE, round_num |-> round_num, horses |-> horses,
       sorted_ids |-> sorted_ids_of(horses),
       used_by_slot |-> [slot \in Slot |-> {}]]

(***************************************************************************)
(* Training (src/training.py) and feeding (src/feeding.py).  Uniform draws  *)
(* are in thousandths.                                                      *)
(***************************************************************************)
Grade == {"Perfect", "Cool", "Great", "Good", "Bad", "None"}

\* (name, primary stats, secondary stats), index 0 first.
TRAININGS ==
  << [name |-> "Pool", prim |-> <<"tenacious">>, sec |-> <<"competing">>],
     [name |-> "Solo Turf/Start", prim |-> <<"start">>, sec |-> <<"oob">>],
     [name |-> "Solo Wood/Corner", prim |-> <<"corner">>, sec |-> <<"competing">>],
     [name |-> "Solo Dirt/Tenacious", prim |-> <<"tenacious">>, sec |-> <<"competing">>],
     [name |-> "Solo Slope/Spurt", prim |-> <<"spurt">>, sec |-> <<"tenacious">>],
     [name |-> "Co-op Turf Start/Comp", prim |-> <<"start", "competing">>, sec |-> <<"oob">>],
     [name |-> "Co-op Dirt Ten/OTB", prim |-> <<"tenacious", "oob">>, sec |-> <<"competing">>],
     [name |-> "Co-op Wood Corner/OTB", prim |-> <<"corner", "oob">>, sec |-> <<"competing">>],
     [name |-> "Co-op Slope Spurt/Comp", prim |-> <<"spurt", "competing">>, sec |-> <<"tenacious">>],
     [name |-> "Rest", prim |-> << >>, sec |-> << >>] >>

\* The element a weighted pick or rng.choice takes from a non-empty list in
\* its k-th use: the first, the last, or one after the other.
pick_of(seq, which, k) ==
  IF which = "first" THEN seq[1]
  ELSE IF which = "last" THEN seq[Len(seq)]
  ELSE seq[(k % Len(seq)) + 1]

\* The keys of keys (in order) that are not in the set excluded.
keys_not_in(excluded) ==
  LET keep(k) == k \notin excluded
  IN  SelectSeq(keys, keep)

\* prim followed by the stats of sec not in prim: the keys of weight_map, and
\* the distinct stats of the feeding weight bag.
targets_of(prim, sec) ==
  LET new(k) == k \notin SeqToSet(prim)
  IN  IF prim = << >> /\ sec = << >> THEN keys ELSE prim \o SelectSeq(sec, new)

\* _scale_delta_for_diminishing and _diminish: the same taper near the cap.
scale_delta_for_diminishing(val, delta) ==
  LET mag == IF delta < 0 THEN -delta ELSE delta
      sign == IF delta > 0 THEN 1 ELSE -1
  IN  IF delta = 0 THEN 0
      ELSE IF val >= 46 THEN sign * Max2(1, mag \div 4)
      ELSE IF val >= 42 THEN sign * Max2(1, mag \div 2)
      ELSE sign * mag

\* val + delta without the clamp.
apply_delta_unclamped(val, delta) == val + delta

apply_delta(val, delta) == clamp_int(val + delta, 8, 48)

\* The bump of one stat with the raw packet added to deltas.
train_bump_reporting_raw(st, stat, raw) ==
  LET cur == st.e[stat]
      new_val == apply_delta(cur, scale_delta_for_diminishing(cur, raw))
  IN  [e |-> [st.e EXCEPT ![stat] = new_val],
       deltas |-> [st.deltas EXCEPT ![stat] = @ + raw]]

\* cur -> _apply_delta(cur, _scale_delta_for_diminishing(cur, raw)) on one
\* stat, the change added to deltas.  st = [e, deltas].
train_bump(st, stat, raw) ==
  LET cur == st.e[stat]
      new_val == apply_delta(cur, scale_delta_for_diminishing(cur, raw))
  IN  [e |-> [st.e EXCEPT ![stat] = new_val],
       deltas |-> [st.deltas EXCEPT ![stat] = @ + (new_val - cur)]]

\* while remaining > 0: spend the budget in packets of 1 or 2.
RECURSIVE train_spend(_, _, _, _, _, _, _)
train_spend(st, remaining, k, targets, sign, p2, d) ==
  IF remaining <= 0 THEN st
  ELSE LET stat == pick_of(targets, d.which, k)
           packet == IF remaining >= 2 /\ st.e[stat] >= 42 THEN 2
                     ELSE IF remaining >= 2 /\ d.u_packet < p2 THEN 2 ELSE 1
       IN  train_spend(train_bump(st, stat, sign * packet), remaining - packet,
                       k + 1, targets, sign, p2, d)

\* apply_training on externals e: the externals after the call and the
\* reported deltas.  d holds the draws of the call.
apply_training(e, training_index, grade, d) ==
  LET t == TRAININGS[training_index + 1]
      st0 == [e |-> e, deltas |-> MkExt([k \in ExternalKey |-> 0])]
      rest_stats == <<"competing", "tenacious", "oob", "corner">>
      lo == CASE grade = "Perfect" -> 7 [] grade = "Cool" -> 6 [] grade = "Great" -> 5
              [] grade = "Good" -> 3 [] OTHER -> 1
      hi == CASE grade = "Perfect" -> 11 [] grade = "Cool" -> 10 [] grade = "Great" -> 8
              [] grade = "Good" -> 6 [] OTHER -> 5
      sign == IF grade = "Bad" THEN -1 ELSE 1
      p2 == CASE grade = "Perfect" -> 550 [] grade = "Cool" -> 450 [] grade = "Great" -> 350
              [] grade = "Good" -> 200 [] OTHER -> 250
      bt_chance == CASE grade = "Good" -> 80 [] grade = "Great" -> 120
                     [] grade = "Cool" -> 150 [] grade = "Perfect" -> 180 [] OTHER -> 0
      so_chance == CASE grade = "Good" -> 200 [] grade = "Great" -> 250
                     [] grade = "Cool" -> 300 [] grade = "Perfect" -> 350 [] OTHER -> 350
      extra == IF d.rint = "lo" THEN 2
               ELSE IF grade \in {"Cool", "Perfect"} THEN 4 ELSE 3
      st1 == train_spend(st0, IF d.rint = "lo" THEN lo ELSE hi, 0,
                         targets_of(t.prim, t.sec), sign, p2, d)
      st2 == IF grade # "Bad" /\ t.prim # << >> /\ d.u_bt < bt_chance
               THEN train_bump(st1, pick_of(t.prim, d.which, 1), extra)
               ELSE st1
      non_targets == keys_not_in(SeqToSet(t.prim) \cup SeqToSet(t.sec))
      st3 == IF non_targets # << >> /\ d.u_so < so_chance
               THEN train_bump(st2, pick_of(non_targets, d.which, 1), sign)
               ELSE st2
  IN  IF grade = "None" THEN st0
      ELSE IF t.name = "Rest"
        THEN IF grade \in {"Perfect", "Cool"}
               THEN train_bump(st0, pick_of(rest_stats, d.which, 1), 1)
             ELSE IF grade = "Bad"
               THEN train_bump(st0, pick_of(rest_stats, d.which, 1), -1)
             ELSE st0
      ELSE st3

\* The tier of every food of the catalog.
FOODS ==
  [n \in {"Apple", "Green Apple", "Orange", "Carrot", "Fodder"} |-> "basic"] @@
  [n \in {"Vegetable Salad", "Chinese Herbal Dumplings (Regular)", "Large Apple",
          "Large Orange", "Bunch of Carrots", "Fodder with Green Tea",
          "Hay Bale Deluxe", "Mineral Mix", "Pudding"} |-> "standard"] @@
  [n \in {"Camembert Cheese", "Cube Sugar", "Large Pudding", "Draft Beer"} |-> "premium"] @@
  [n \in {"Herbal Dumpling", "Large Herbal Dumpling", "Large Korean Ginseng"} |-> "special"]

SPECIAL_ORDER == <<"Herbal Dumpling", "Large Herbal Dumpling", "Large Korean Ginseng">>

\* sim_apply: one tick on the temporary values; deltas gets a key only for a
\* change that is not 0.  st = [e, deltas].
sim_apply(st, stat, raw) ==
  LET cur == st.e[stat]
      new == Max2(8, Min2(48, cur + scale_delta_for_diminishing(cur, raw)))
      old == IF stat \in DOMAIN st.deltas THEN st.deltas[stat] ELSE 0
  IN  [e |-> [st.e EXCEPT ![stat] = new],
       deltas |-> IF new = cur THEN st.deltas
                  ELSE (stat :> (old + new - cur)) @@ st.deltas]

RECURSIVE food_spend(_, _, _, _, _, _, _)
food_spend(st, remaining, k, targets, sign, p2, d) ==
  IF remaining <= 0 THEN st
  ELSE LET stat == pick_of(targets, d.which, k)
           packet == IF remaining >= 2 /\ (st.e[stat] >= 42 \/ d.u_packet < p2)
                       THEN 2 ELSE 1
       IN  food_spend(sim_apply(st, stat, sign * packet), remaining - packet,
                      k + 1, targets, sign, p2, d)

\* The grade taken as it is for every food.
effective_grade_as_given(grade, is_beer, is_special) == grade

\* effective_grade: Bad counts as Good for Draft Beer and the genetic foods.
effective_grade_of(grade, is_beer, is_special) ==
  IF grade = "Bad" /\ (is_beer \/ is_special) THEN "Good" ELSE grade

\* compute_food_deltas: the deltas of one feeding; pref_mult is in tenths.
compute_food_deltas(e, grade, primary, secondary, chosen_food, pref_mult, d) ==
  LET sec_targets == IF primary = secondary THEN << >> ELSE secondary
      is_beer == chosen_food = "Draft Beer"
      is_special == chosen_food \in SeqToSet(SPECIAL_ORDER)
      tier == IF is_beer THEN "beer"
              ELSE IF chosen_food \in DOMAIN FOODS THEN FOODS[chosen_food]
              ELSE "standard"
      effective_grade == effective_grade_of(grade, is_beer, is_special)
      range ==
        IF effective_grade = "Bad"
          THEN CASE tier = "basic" -> <<-3, 0>> [] tier = "standard" -> <<-3, 1>>
                 [] tier = "premium" -> <<-2, 2>> [] OTHER -> <<-3, 1>>
        ELSE IF tier = "special"
          THEN CASE chosen_food = "Herbal Dumpling" -> <<3, 5>>
                 [] chosen_food = "Large Herbal Dumpling" -> <<4, 6>>
                 [] chosen_food = "Large Korean Ginseng" -> <<5, 7>>
                 [] OTHER -> <<3, 6>>
        ELSE IF tier = "beer"
          THEN IF grade = "Perfect" THEN <<4, 7>> ELSE <<3, 6>>
        ELSE CASE tier = "basic" -> <<1, 2>> [] tier = "standard" -> <<1, 3>>
               [] tier = "premium" -> <<2, 4>> [] OTHER -> <<1, 3>>
      base_budget == IF d.rint = "lo" THEN range[1] ELSE range[2]
      budget == Trunc(base_budget * pref_mult, 10)
      targets == targets_of(primary, sec_targets)
      sign == IF budget > 0 THEN 1 ELSE -1
      p2 == CASE tier = "basic" -> 150 [] tier = "standard" -> 250
              [] tier = "premium" -> 350 [] tier = "special" -> 400
              [] tier = "beer" -> 450 [] OTHER -> 250
      st1 == food_spend([e |-> e, deltas |-> << >>],
                        IF budget < 0 THEN -budget ELSE budget, 0, targets, sign, p2, d)
      others == keys_not_in(SeqToSet(targets))
      rich == tier \in {"premium", "special", "beer"}
      extra == IF rich /\ d.u_packet < 330 THEN 2 ELSE 1
      st2 == IF others # << >> /\ d.u_so < (IF rich THEN 550 ELSE 300)
               THEN sim_apply(st1, pick_of(others, d.which, 1), sign * extra)
               ELSE st1
  IN  IF budget = 0 THEN << >> ELSE st2.deltas

\* _apply: clamp every listed stat and report what was applied.
apply_deltas(e, deltas) ==
  [e |-> [k \in DOMAIN e |->
            IF k \in DOMAIN deltas THEN clamp_int(e[k] + deltas[k], 8, 48) ELSE e[k]],
   deltas |-> [k \in DOMAIN deltas |-> clamp_int(e[k] + deltas[k], 8, 48) - e[k]]]

\* apply_feeding on externals e: the externals after the call and the
\* reported deltas.
apply_feeding(e, grade, primary, secondary, chosen_food, pref_mult, d) ==
  apply_deltas(e, compute_food_deltas(e, grade, primary, secondary,
                                      chosen_food, pref_mult, d))

(***************************************************************************)
(* Records (src/records.py) and timed results (src/race_reporting.py).     *)
(* Times are in milliseconds.                                               *)
(***************************************************************************)
\* seconds; record must be beaten by more than this margin
EPS_BREAK == 100

\* _key: f"{course_code}|{distance}|{surface}"
record_key(race) == <<race.course_code, race.distance, race.surface>>

\* The table after ensure_record.
ensure_record(recs, k, time_seconds, holder) ==
  IF k \in DOMAIN recs THEN recs
  ELSE (k :> [time_seconds |-> time_seconds, holder |-> holder]) @@ recs

\* The table after an update that stores the time without comparing it.
update_always(recs, k, time_seconds, holder) ==
  [broken |-> TRUE,
   recs |-> (k :> [time_seconds |-> time_seconds, holder |-> holder]) @@ recs]

\* update_if_broken: (record_broken, table after the call).
update_if_broken(recs, k, time_seconds, holder) ==
  IF k \notin DOMAIN recs \/ time_seconds < recs[k].time_seconds - EPS_BREAK
    THEN [broken |-> TRUE,
          recs |-> (k :> [time_seconds |-> time_seconds, holder |-> holder]) @@ recs]
    ELSE [broken |-> FALSE, recs |-> recs]

Condition == {"GOOD", "GOOD_TO_SOFT", "SOFT", "HEAVY"}

\* Conditions from fastest to slowest, per surface.
condition_order(surface) ==
  IF surface = "TURF" THEN <<"GOOD", "GOOD_TO_SOFT", "SOFT", "HEAVY">>
  ELSE <<"SOFT", "HEAVY", "GOOD_TO_SOFT", "GOOD">>

\* 100 * condition_speed_scalar
condition_speed_scalar(surface, cond) ==
  IF surface = "TURF"
    THEN CASE cond = "GOOD" -> 2 [] cond = "GOOD_TO_SOFT" -> 0
           [] cond = "SOFT" -> -1 [] cond = "HEAVY" -> -3
    ELSE CASE cond = "SOFT" -> 2 [] cond = "HEAVY" -> 1
           [] cond = "GOOD_TO_SOFT" -> 0 [] cond = "GOOD" -> -2

\* step * 0.55 * distance / 1600 seconds
condition_time_penalty(surface, condition, distance) ==
  LET order == condition_order(surface)
      step == (CHOOSE i \in 1..4 : order[i] = condition) - 1
  IN  (step * 550 * distance) \div 1600

\* distance / 17.0 on turf, distance / 16.6 on dirt
par_time_seconds(distance, surface) ==
  IF surface = "TURF" THEN (distance * 10000) \div 170 ELSE (distance * 10000) \div 166

\* A sort by time that places a pair behind the later pairs of equal time.
sort_by_time_unstable(pairs, i) ==
  LET ps == SubSeq(pairs, 1, i)
      rank == [j \in 1..i |->
                 1 + Cardinality({k \in 1..i : ps[k].t < ps[j].t})
                   + Cardinality({k \in (j + 1)..i : ps[k].t = ps[j].t})] \o << >>
  IN  [p \in 1..i |-> ps[CHOOSE j \in 1..i : rank[j] = p]] \o << >>

\* The stable sort of the first i (horse, time) pairs by time: a pair comes
\* after the pairs of lower time and after the earlier pairs of equal time.
sort_by_time(pairs, i) ==
  LET ps == SubSeq(pairs, 1, i)
      rank == [j \in 1..i |->
                 1 + Cardinality({k \in 1..i : ps[k].t < ps[j].t})
                   + Cardinality({k \in 1..(j - 1) : ps[k].t = ps[j].t})] \o << >>
  IN  [p \in 1..i |-> ps[CHOOSE j \in 1..i : rank[j] = p]] \o << >>

\* The times of the first i runners before sorting: finish[i] = [id, score].
raw_times(finish, base, total, q, i) ==
  LET n == Len(finish)
      z(j) == IF q <= 0 THEN ((n * finish[j].score - total) * 1000) \div n
              ELSE ((n * finish[j].score - total) * 1000000) \div isqrt(q * 1000000)
  IN  [j \in 1..i |-> [id |-> finish[j].id, t |-> base - (550 * z(j)) \div 1000]] \o << >>

\* The fastest raw time taken as it is.
winner_unclamped(min_t, rec_time) == min_t

\* max(rec.time_seconds - 0.25, min(winner_time, rec.time_seconds + 8.00))
winner_clamped(min_t, rec_time) == Max2(rec_time - 250, Min2(min_t, rec_time + 8000))

\* timed_results on a non-empty finish order: the TimedRace and the record
\* table after the call.
timed_results(race, condition, finish, recs) ==
  LET k == record_key(race)
      recs1 == ensure_record(recs, k, par_time_seconds(race.distance, race.surface), "N/A")
      rec == recs1[k]
      base == ((rec.time_seconds + 2000
                + condition_time_penalty(race.surface, condition, race.distance))
               * (400 - condition_speed_scalar(race.surface, condition))) \div 400
      n == Len(finish)
      idx == [i \in 1..n |-> i]
      total == SumSeq([i \in 1..n |-> finish[i].score], idx, 1)
      q == n * SumSeq([i \in 1..n |-> finish[i].score * finish[i].score], idx, 1)
           - total * total
      raw == raw_times(finish, base, total, q, n)
      min_t == CHOOSE t \in {raw[i].t : i \in 1..n} : \A i \in 1..n : t <= raw[i].t
      winner_time == winner_clamped(min_t, rec.time_seconds)
      updated == sort_by_time(
                   [i \in 1..n |->
                      [id |-> raw[i].id,
                       t |-> winner_time + Max2(0, Min2(raw[i].t - min_t, 10000))]], n)
      out == [i \in 1..n |->
                [pos |-> i, horse_id |-> updated[i].id, time_seconds |-> updated[i].t,
                 lengths_behind |-> (updated[i].t - winner_time) * 5]]
      fastest_ok == condition = condition_order(race.surface)[1]
      upd == IF fastest_ok THEN update_if_broken(recs1, k, winner_time, out[1].horse_id)
             ELSE [broken |-> FALSE, recs |-> recs1]
  IN  [runners |-> out, winner_time |-> winner_time, record_broken |-> upd.broken,
       record_entry |-> upd.recs[k], recs |-> upd.recs, rec |-> rec]

(***************************************************************************)
(* Inputs of the breeding calls                                             *)
(***************************************************************************)
Parent(st, sp, sh, ac, e1, e2, e3, e4, e5, e6) ==
  [stamina |-> st, speed |-> sp, sharp |-> sh, ac |-> ac,
   start |-> e1, corner |-> e2, oob |-> e3, competing |-> e4,
   tenacious |-> e5, spurt |-> e6]

\* The last sire carries externals outside the pedigree range 0..16.
Sires ==
  { Parent(30, 30, 30, 100, 16, 16, 16, 16, 16, 16),
    Parent(31, 28, 33, 40, 12, 12, 12, 12, 12, 0),
    Parent(25, 36, 29, 220, 17, -1, 8, 8, 8, 8) }

Dams ==
  { Parent(30, 30, 30, 100, 15, 15, 15, 15, 15, 15),
    Parent(28, 35, 30, 180, 16, 3, 10, 11, 2, 13) }

CapSums == {40, 160, 178}

MaxTokens == 1

\* The draws one key may consume: lowest noise without anomaly, and the
\* anomaly at full magnitude upward and downward on centred noise.
BirthDraws ==
  { [u1 |-> 0,   u2 |-> 0,   u3 |-> 0,   ua |-> 500, us |-> 0,   um |-> 0],
    [u1 |-> 500, u2 |-> 500, u3 |-> 500, ua |-> 0,   us |-> 0,   um |-> 999],
    [u1 |-> 500, u2 |-> 500, u3 |-> 500, ua |-> 34,  us |-> 999, um |-> 999] }

in_range_0_16(p) == \A k \in ExternalKey : p[k] >= 0 /\ p[k] <= 16

(***************************************************************************)
(* State                                                                    *)
(***************************************************************************)
\* The arguments of one breeding call, before the call.
BreedArgs ==
  { [called |-> FALSE, sire |-> sire, dam |-> dam, cap_sum |-> cap_sum,
     tok_sire |-> tok_sire, tok_dam |-> tok_dam] :
      sire \in Sires, dam \in Dams, cap_sum \in CapSums,
      tok_sire \in 0..MaxTokens, tok_dam \in 0..MaxTokens }

\* One breeding call: the arguments, the six stats before cap enforcement
\* and the returned externals.  The function has no failing path for integer
\* stats, so every call returns.
Breed ==
  /\ ~breed.called
  /\ \E draws \in [ExternalKey -> BirthDraws] :
       LET t_total == t_total_of(breed.tok_sire, breed.tok_dam)
       IN  breed' = [called |-> TRUE, status |-> "returned", draws |-> draws,
                     sire |-> breed.sire, dam |-> breed.dam,
                     cap_sum |-> breed.cap_sum,
                     tok_sire |-> breed.tok_sire, tok_dam |-> breed.tok_dam,
                     cap |-> adjusted_cap(breed.cap_sum, t_total),
                     pre |-> birth_before_cap(breed.sire, breed.dam, draws, t_total),
                     ext |-> compute_birth_ext_8_48_from_parents(
                               breed.sire, breed.dam, draws, breed.cap_sum,
                               breed.tok_sire, breed.tok_dam),
                     internals |-> breed_internals(breed.sire, breed.dam)]
  /\ UNCHANGED <<pool, field, gates, player, train, records, timed, sim, world, main>>

InitBreed ==
  /\ breed \in BreedArgs
  /\ pool = [built |-> FALSE]
  /\ field = [called |-> FALSE]
  /\ gates = [called |-> FALSE]
  /\ player = [born |-> FALSE]
  /\ train = [called |-> FALSE]
  /\ records = << >>
  /\ timed = [called |-> FALSE]
  /\ sim = [called |-> FALSE]
  /\ world = [loaded |-> FALSE]
  /\ main = [pc |-> "off"]

NextBreed == Breed

SpecBreed == InitBreed /\ [][NextBreed]_vars

(***************************************************************************)
(* Claims about the genetic generator, checked under SpecBreed              *)
(***************************************************************************)
ClaimedCap == Min2(180, breed.cap_sum + Min2(4 * (breed.tok_sire + breed.tok_dam), 20))

\* C4 as stated: for every breeding call, whatever the cap, the six returned
\* externals sum to at most the token-adjusted cap and none is below 8.
C4_SumWithinAnyCap ==
  breed.called =>
    /\ sum_ext(breed.ext) <= ClaimedCap
    /\ \A k \in ExternalKey : breed.ext[k] >= 8

\* C4 amended: when the token-adjusted cap is at least 48 (six stats at the
\* floor 8) the returned externals sum to at most that cap; and for every cap
\* no returned stat is below 8.
C4_SumWithinCap ==
  breed.called =>
    /\ ClaimedCap >= 48 => sum_ext(breed.ext) <= ClaimedCap
    /\ \A k \in ExternalKey : breed.ext[k] >= 8

\* A call whose stats exceeded a cap of at least 48 before enforcement and
\* were reduced, some stat ending on the floor.
C4_Witness ==
  /\ breed.called
  /\ ClaimedCap >= 48
  /\ sum_ext(breed.pre) > ClaimedCap
  /\ breed.ext # breed.pre
  /\ \E k \in ExternalKey : breed.ext[k] = 8

\* C6: every external of a breeding call lies in [8,48], before cap
\* enforcement and in the returned result.
C6_ExternalsInRange ==
  breed.called =>
    \A k \in ExternalKey :
      /\ breed.pre[k] >= 8 /\ breed.pre[k] <= 48
      /\ breed.ext[k] >= 8 /\ breed.ext[k] <= 48

\* A call in which an anomaly fired upward on one key and downward on
\* another, the clamp held a stat at 48 and another at 8, and the cap
\* enforcement changed the stats.
C6_Witness ==
  /\ breed.called
  /\ \E k \in ExternalKey :
       breed.draws[k].ua < anom_p /\ breed.draws[k].us < 500 /\ breed.pre[k] = 48
  /\ \E k \in ExternalKey :
       breed.draws[k].ua < anom_p /\ breed.draws[k].us >= 700 /\ breed.pre[k] = 8
  /\ breed.ext # breed.pre

\* C10 as stated: a breeding call with a parent external outside [0,16] is
\* rejected instead of returning offspring externals.
C10_OutOfRangeParentRejected ==
  (breed.called /\ ~(in_range_0_16(breed.sire) /\ in_range_0_16(breed.dam)))
    => breed.status = "rejected"

\* C29: in a breeding call with a token-adjusted cap of at least 48, when the
\* six externals sum to more than the cap before enforcement the returned
\* externals sum to at least cap - 3 and at most cap, and when they sum to at
\* most the cap they are returned as they were.
C29_CapNotOverReduced ==
  (breed.called /\ breed.cap >= 48) =>
    /\ sum_ext(breed.pre) > breed.cap =>
         (breed.cap - 3 <= sum_ext(breed.ext) /\ sum_ext(breed.ext) <= breed.cap)
    /\ sum_ext(breed.pre) <= breed.cap => breed.ext = breed.pre

\* A call whose stats exceeded the cap and were cut to a sum below it.
C29_Witness ==
  /\ breed.called /\ breed.cap >= 48
  /\ sum_ext(breed.pre) > breed.cap
  /\ sum_ext(breed.ext) < breed.cap

\* A call whose stats summed to less than the cap and came back as they were.
C29_WitnessUnderCap ==
  /\ breed.called /\ breed.cap >= 48
  /\ sum_ext(breed.pre) < breed.cap
  /\ breed.ext = breed.pre
  /\ \E k \in ExternalKey : breed.pre[k] > 8

\* C17: the internals of a foal are, stat by stat, the sum of the sire's and
\* the dam's value halved and rounded down, whatever the draws of the call
\* (the seed) are; parents of (30, 30, 30) give a foal of (30, 30, 30).
C17_InternalsFloorAverage ==
  breed.called =>
    /\ \A k \in {"stamina", "speed", "sharp"} :
         /\ 2 * breed.internals[k] <= breed.sire[k] + breed.dam[k]
         /\ breed.sire[k] + breed.dam[k] <= 2 * breed.internals[k] + 1
    /\ (\A k \in {"stamina", "speed", "sharp"} : breed.sire[k] = 30 /\ breed.dam[k] = 30)
         => breed.internals = [stamina |-> 30, speed |-> 30, sharp |-> 30]

\* A foal of parents whose stamina sums to an odd number, bred with draws
\* that differ between the keys.
C17_Witness ==
  /\ breed.called
  /\ (breed.sire.stamina + breed.dam.stamina) % 2 = 1
  /\ breed.internals.stamina = 29
  /\ breed.draws["start"] # breed.draws["spurt"]

(***************************************************************************)
(* Field selection on a built pool                                          *)
(***************************************************************************)
MaxPool == 6

MaxField == 3

MaxCalls == 2

\* Band shifts in hundredths: none, and the largest difficulty offset the
\* caller passes.
BandShifts == {0, 10}

\* rating_base of the horse at index idx: increasing with the index, or
\* scattered with ties.
RatingPatterns ==
  { [idx \in 0..(MaxPool - 1) |-> 10 * idx],
    [idx \in 0..(MaxPool - 1) |-> (3 * idx) % 5] }

\* A pool as build_round_pool leaves it: horses in index order, ids sorted
\* by rating, nothing used yet.
RoundPool(round_num, n, rating) ==
  LET horses == [i \in 1..n |-> [id |-> cpu_id(round_num, i - 1),
                                  rating_base |-> rating[i - 1]]]
  IN  [built |-> TRUE, round_num |-> round_num, horses |-> horses,
       sorted_ids |-> sorted_ids_of(horses),
       used_by_slot |-> [slot \in Slot |-> {}]]

\* The used set keeping only the ids of this call.
mark_used_replacing(used, chosen) == SeqToSet(chosen)

\* used.update(chosen)
mark_used(used, chosen) == used \cup SeqToSet(chosen)

\* One select_cpu_field call, for every order the shuffle can produce.
SelectField ==
  /\ field.calls < MaxCalls
  /\ \E slot \in Slot, field_size \in 1..MaxField, band_shift \in BandShifts :
       LET window == candidates_of(pool.sorted_ids, slot, band_shift)
           used == pool.used_by_slot[slot]
       IN  \E shuffled \in Shuffles(SeqToSet(window)) :
             LET chosen == chosen_ids(shuffled, used, field_size)
             IN  /\ pool' = [pool EXCEPT !.used_by_slot[slot] = mark_used(used, chosen)]
                 /\ field' = [called |-> TRUE, calls |-> field.calls + 1,
                              slot |-> slot, field_size |-> field_size,
                              band_shift |-> band_shift, window |-> window,
                              used_before |-> used,
                              result |-> horses_of(pool.horses, chosen)]
  /\ UNCHANGED <<breed, gates, player, train, records, timed, sim, world, main>>

InitField ==
  /\ pool \in {RoundPool(1, n, rating) : n \in (MaxPool - 1)..MaxPool,
                                         rating \in RatingPatterns}
  /\ field = [called |-> FALSE, calls |-> 0]
  /\ breed = [called |-> FALSE]
  /\ gates = [called |-> FALSE]
  /\ player = [born |-> FALSE]
  /\ train = [called |-> FALSE]
  /\ records = << >>
  /\ timed = [called |-> FALSE]
  /\ sim = [called |-> FALSE]
  /\ world = [loaded |-> FALSE]
  /\ main = [pc |-> "off"]

NextField == SelectField

SpecField == InitField /\ [][NextField]_vars

(***************************************************************************)
(* Claims about field selection, checked under SpecField                    *)
(***************************************************************************)
result_ids == {field.result[i].id : i \in 1..Len(field.result)}

unused_in_window == SeqToSet(field.window) \ field.used_before

\* C1 as stated: whenever the pool holds at least field_size horses, the
\* call returns exactly field_size competitors, whatever the slot and the
\* band shift.
C1_ReturnsFieldSize ==
  (field.called /\ Len(pool.horses) >= field.field_size)
    => Len(field.result) = field.field_size

\* C2: when the window holds at least field_size ids not yet used for the
\* slot, the returned ids are pairwise distinct, lie inside the window and
\* were not used before; a used id is returned only when the window holds
\* fewer than field_size unused ids.
C2_UnusedFirst ==
  field.called =>
    /\ Cardinality(unused_in_window) >= field.field_size =>
         /\ Cardinality(result_ids) = Len(field.result)
         /\ result_ids \subseteq SeqToSet(field.window)
         /\ result_ids \cap field.used_before = {}
    /\ result_ids \cap field.used_before # {} =>
         Cardinality(unused_in_window) < field.field_size

\* A second call on a slot whose window holds used ids and still enough
\* unused ones: the field is filled from the unused ids only.
C2_Witness ==
  /\ field.called
  /\ SeqToSet(field.window) \cap field.used_before # {}
  /\ Cardinality(unused_in_window) >= field.field_size
  /\ Len(field.result) = field.field_size
  /\ field.field_size >= 2
  /\ result_ids \cap field.used_before = {}

\* C12: a select_cpu_field call for slot s leaves the pool's horses, their
\* ratings, sorted_ids and the used sets of the other slots as they were, and
\* makes used_by_slot[s] its old value united with the ids selected; no used
\* set loses an id.
C12_OnlyUsedOfSlotGrows ==
  [][field'.calls = field.calls + 1 =>
       LET s == field'.slot
           selected == {field'.result[i].id : i \in 1..Len(field'.result)}
       IN  /\ pool'.horses = pool.horses
           /\ pool'.sorted_ids = pool.sorted_ids
           /\ pool'.round_num = pool.round_num
           /\ \A t \in Slot \ {s} : pool'.used_by_slot[t] = pool.used_by_slot[t]
           /\ pool'.used_by_slot[s] = pool.used_by_slot[s] \cup selected
           /\ \A t \in Slot : pool.used_by_slot[t] \subseteq pool'.used_by_slot[t]]_vars

\* A second call on a slot with ids already used, selecting ids not used
\* before: the used set holds the old and the new ids.
C12_Witness ==
  /\ field.calls = 2
  /\ field.used_before # {}
  /\ ~(result_ids \subseteq field.used_before)
  /\ ~(field.used_before \subseteq result_ids)
  /\ pool.used_by_slot[field.slot] = field.used_before \cup result_ids

(***************************************************************************)
(* Gate draw (src/race_engine.py)                                           *)
(***************************************************************************)
MaxRunners == 4

\* Values of gate_rng.random() in thousandths; random() is below 1.
GateDraws == {0, 250, 500, 750, 999}

\* gates[i] = gates[j] without the exchange.
swap_assign_only(g, i, j) == [g EXCEPT ![i + 1] = g[j + 1]]

\* gates[i], gates[j] = gates[j], gates[i]   (0-based i, j)
swap(g, i, j) == [g EXCEPT ![i + 1] = g[j + 1], ![j + 1] = g[i + 1]]

\* The Fisher-Yates loop from position i down to 1; draws[k] is the k-th
\* value the RNG yields.
RECURSIVE fisher_yates(_, _, _, _)
fisher_yates(g, i, draws, k) ==
  IF i < 1 THEN g
  ELSE LET j == (draws[k] * (i + 1)) \div 1000
       IN  fisher_yates(swap(g, i, j), i - 1, draws, k + 1)

\* {h.id: gates[i] for i, h in enumerate(runners)}
draw_gates(runners, draws) ==
  LET n == Len(runners)
      g == fisher_yates([i \in 1..n |-> i], n - 1, draws, 1)
  IN  [id \in {runners[i].id : i \in 1..n} |->
         g[CHOOSE i \in 1..n :
             /\ runners[i].id = id
             /\ \A i2 \in (i + 1)..n : runners[i2].id # id]]

\* N runners with pairwise distinct ids.
Runners(n) == [i \in 1..n |-> [id |-> cpu_id(1, i - 1)]]

DrawGates ==
  /\ ~gates.called
  /\ \E draws \in [1..Max2(0, Len(gates.runners) - 1) -> GateDraws] :
       gates' = [called |-> TRUE, runners |-> gates.runners, draws |-> draws,
                 result |-> draw_gates(gates.runners, draws)]
  /\ UNCHANGED <<breed, pool, field, player, train, records, timed, sim, world, main>>

InitGates ==
  /\ gates \in {[called |-> FALSE, runners |-> Runners(n)] : n \in 0..MaxRunners}
  /\ breed = [called |-> FALSE]
  /\ pool = [built |-> FALSE]
  /\ field = [called |-> FALSE]
  /\ player = [born |-> FALSE]
  /\ train = [called |-> FALSE]
  /\ records = << >>
  /\ timed = [called |-> FALSE]
  /\ sim = [called |-> FALSE]
  /\ world = [loaded |-> FALSE]
  /\ main = [pc |-> "off"]

NextGates == DrawGates

SpecGates == InitGates /\ [][NextGates]_vars

(***************************************************************************)
(* Claims about the gate draw, checked under SpecGates                      *)
(***************************************************************************)
\* C3: the map returned by a gate draw over N runners with distinct ids
\* gives every runner id one gate, no gate twice, and the gates are exactly
\* 1..N.
C3_GatesBijection ==
  gates.called =>
    LET n == Len(gates.runners)
        ids == {gates.runners[i].id : i \in 1..n}
    IN  /\ DOMAIN gates.result = ids
        /\ {gates.result[id] : id \in ids} = 1..n
        /\ \A a, b \in ids : gates.result[a] = gates.result[b] => a = b

\* A draw over at least three runners that moved the first and the last
\* runner off their initial gates.
C3_Witness ==
  /\ gates.called
  /\ Len(gates.runners) >= 3
  /\ gates.result[gates.runners[1].id] # 1
  /\ gates.result[gates.runners[Len(gates.runners)].id] # Len(gates.runners)

(***************************************************************************)
(* Pool construction                                                        *)
(***************************************************************************)
PoolSize == 2

\* The roster: parents on the pedigree scale 0..16.
RosterSires == {p \in Sires : in_range_0_16(p)}

RosterDams == {p \in Dams : in_range_0_16(p)}

\* The draws of one foal over the six keys: low noise throughout; an upward
\* anomaly on every key; low noise on start, an upward anomaly on corner and
\* downward anomalies on the rest.
FoalDraws ==
  LET d == [i \in 1..3 |->
              CHOOSE x \in BirthDraws :
                \/ i = 1 /\ x.ua >= anom_p
                \/ i = 2 /\ x.ua < anom_p /\ x.us < 500
                \/ i = 3 /\ x.ua < anom_p /\ x.us >= 500]
  IN  { [k \in ExternalKey |-> d[1]],
        [k \in ExternalKey |-> d[2]],
        [k \in ExternalKey |->
           IF k = "start" THEN d[1] ELSE IF k = "corner" THEN d[2] ELSE d[3]] }

\* Values of rng.gauss(0, 18) in the AC draw.
AcGauss == {-150, 7}

\* Everything the loop draws for one foal.
FoalChoices ==
  [sire : RosterSires, dam : RosterDams, draws : FoalDraws,
   gauss : AcGauss, sex : {"M", "F"}]

\* One build_round_pool call for the round chosen at the start.
BuildPool ==
  /\ ~pool.built
  /\ \E foals \in [1..PoolSize -> FoalChoices] :
       pool' = build_round_pool(pool.round_num, foals)
               @@ [birth_ext |-> [i \in 1..PoolSize |-> pool_birth_ext(foals[i])]]
  /\ UNCHANGED <<breed, field, gates, player, train, records, timed, sim, world, main>>

InitPool ==
  /\ pool \in {[built |-> FALSE, round_num |-> r] : r \in Rounds}
  /\ breed = [called |-> FALSE]
  /\ field = [called |-> FALSE, calls |-> 0]
  /\ gates = [called |-> FALSE]
  /\ player = [born |-> FALSE]
  /\ train = [called |-> FALSE]
  /\ records = << >>
  /\ timed = [called |-> FALSE]
  /\ sim = [called |-> FALSE]
  /\ world = [loaded |-> FALSE]
  /\ main = [pc |-> "off"]

NextPool == BuildPool

SpecPool == InitPool /\ [][NextPool]_vars

(***************************************************************************)
(* Claims about pool construction, checked under SpecPool                   *)
(***************************************************************************)
\* C5 as stated: in every built pool, for every round 1..16, each horse's
\* six externals sum to at most the birth cap 160.
C5_PoolExternalsWithinCap ==
  pool.built =>
    \A i \in 1..Len(pool.horses) : ext_sum(pool.horses[i]) <= 160

\* C13: in a built pool every horse carries the rating computed against the
\* mean and standard deviation of that pool, the horse ids are pairwise
\* distinct, and sorted_ids lists every horse id once, in an order in which
\* a later id never has a lower rating than an earlier one.
C13_PoolRatedAndSorted ==
  pool.built =>
    LET hs == pool.horses
        n == Len(hs)
        ids == {hs[i].id : i \in 1..n}
        rating_of(id) == (CHOOSE h \in {hs[i] : i \in 1..n} : h.id = id).rating_base
    IN  /\ \A i \in 1..n : hs[i].rating_base = compute_rating(hs[i], compute_pool_int_stats(hs))
        /\ \A i, j \in 1..n : i # j => hs[i].id # hs[j].id
        /\ Len(pool.sorted_ids) = n
        /\ {pool.sorted_ids[i] : i \in 1..n} = ids
        /\ \A i, j \in 1..n :
             i < j => rating_of(pool.sorted_ids[i]) <= rating_of(pool.sorted_ids[j])

\* A pool whose second foal is rated below the first: sorted_ids lists the
\* second foal first.
C13_Witness ==
  /\ pool.built
  /\ Len(pool.horses) >= 2
  /\ pool.horses[2].rating_base < pool.horses[1].rating_base
  /\ pool.sorted_ids[1] = pool.horses[2].id

(***************************************************************************)
(* A career: training phase, then feeding phase, per meet                   *)
(***************************************************************************)
MaxMeets == 1

\* The draws of one training or feeding call.
CareerDraws ==
  [which : {"first", "last", "alternate"}, u_packet : {0, 999},
   u_bt : {0, 999}, u_so : {0, 999}, rint : {"lo", "hi"}]

\* One food of each tier, the Perfect-only reward and a genetic food.
FoodChoices ==
  {"Apple", "Vegetable Salad", "Cube Sugar", "Draft Beer", "Large Korean Ginseng"}

\* pref_mult in tenths: hates, neutral, likes, loves.
PrefMults == {7, 10, 12, 14}

\* The player's horse: freshly bred, and late in a career with stats at the
\* taper thresholds and at both ends of the range.
Players ==
  { [born |-> TRUE, style |-> derive_leg_type(e), ac |-> 100, genetic_tokens |-> 0,
     internals |-> [stamina |-> 30, speed |-> 30, sharp |-> 30], externals |-> e] :
      e \in { [start |-> 30, corner |-> 26, oob |-> 22, competing |-> 28,
               tenacious |-> 24, spurt |-> 30],
              [start |-> 48, corner |-> 47, oob |-> 45, competing |-> 41,
               tenacious |-> 8, spurt |-> 9] } }

\* training_flow without training: apply_training is not called.
NoTraining ==
  /\ train.phase = "train" /\ train.meets < MaxMeets
  /\ train' = [called |-> FALSE, phase |-> "feed", meets |-> train.meets,
               training_index |-> -1, grade |-> "None",
               before |-> player.externals, deltas |-> << >>, chosen |-> ""]
  /\ UNCHANGED <<breed, pool, field, gates, player, records, timed, sim, world, main>>

\* One apply_training call.
ApplyTraining ==
  /\ train.phase = "train" /\ train.meets < MaxMeets
  /\ \E training_index \in 0..(Len(TRAININGS) - 1), grade \in Grade, d \in CareerDraws :
       LET r == apply_training(player.externals, training_index, grade, d)
       IN  /\ player' = [player EXCEPT !.externals = r.e]
           /\ train' = [called |-> TRUE, phase |-> "feed", meets |-> train.meets,
                        training_index |-> training_index, grade |-> grade,
                        before |-> player.externals, deltas |-> r.deltas,
                        chosen |-> ""]
  /\ UNCHANGED <<breed, pool, field, gates, records, timed, sim, world, main>>

\* One apply_feeding call, with the grade and the stats of the training
\* phase before it.
ApplyFeeding ==
  /\ train.phase = "feed"
  /\ \E chosen_food \in FoodChoices, pref_mult \in PrefMults,
        d \in {x \in CareerDraws : x.u_bt = 0} :
       LET t == IF train.training_index >= 0 THEN TRAININGS[train.training_index + 1]
                ELSE [name |-> "", prim |-> << >>, sec |-> << >>]
           r == apply_feeding(player.externals, train.grade, t.prim, t.sec,
                              chosen_food, pref_mult, d)
       IN  /\ player' = [player EXCEPT
                           !.externals = r.e,
                           !.genetic_tokens =
                              IF chosen_food \in SeqToSet(SPECIAL_ORDER) THEN @ + 1 ELSE @]
           /\ train' = [called |-> TRUE, phase |-> "grow", meets |-> train.meets,
                        training_index |-> train.training_index, grade |-> train.grade,
                        before |-> player.externals, deltas |-> r.deltas,
                        chosen |-> chosen_food]
  /\ UNCHANGED <<breed, pool, field, gates, records, timed, sim, world, main>>

\* The growth calls tried: slot of the race, finishing position, the two
\* rng.random() values in thousandths and the two rng.choice(keys) picks.
\* A G1 win with both points, with the first only and with the second only,
\* a feature race and an ordinary race with a point, and a race without.
GrowCases ==
  { [slot |-> "G1", finish_pos |-> 1, u_p |-> 0, k1 |-> "speed", u_extra |-> 0, k2 |-> "sharp"],
    [slot |-> "G1", finish_pos |-> 1, u_p |-> 599, k1 |-> "stamina", u_extra |-> 200, k2 |-> "speed"],
    [slot |-> "G1", finish_pos |-> 1, u_p |-> 600, k1 |-> "stamina", u_extra |-> 199, k2 |-> "stamina"],
    [slot |-> "3R", finish_pos |-> 2, u_p |-> 249, k1 |-> "sharp", u_extra |-> 0, k2 |-> "speed"],
    [slot |-> "1R", finish_pos |-> 3, u_p |-> 99, k1 |-> "speed", u_extra |-> 0, k2 |-> "speed"],
    [slot |-> "G1", finish_pos |-> 4, u_p |-> 100, k1 |-> "speed", u_extra |-> 0, k2 |-> "speed"] }

\* Chance of a growth point in thousandths, by slot and finishing position.
growth_p(slot, finish_pos) ==
  IF slot = "G1"
  THEN (IF finish_pos = 1 THEN 600 ELSE IF finish_pos = 2 THEN 350
        ELSE IF finish_pos = 3 THEN 250 ELSE 100)
  ELSE IF slot = "3R"
  THEN (IF finish_pos = 1 THEN 400 ELSE IF finish_pos = 2 THEN 250
        ELSE IF finish_pos = 3 THEN 200 ELSE 80)
  ELSE (IF finish_pos = 1 THEN 250 ELSE IF finish_pos = 2 THEN 150
        ELSE IF finish_pos = 3 THEN 100 ELSE 50)

growth_extra_p(slot, finish_pos) ==
  IF slot = "G1" /\ finish_pos = 1 THEN 200 ELSE 0

\* A growth point that also moves an external (not what the code does).
add_internal_and_start(h, k) ==
  [h EXCEPT !.internals[k] = @ + 1, !.externals.start = Min2(48, @ + 1)]

\* setattr(player.internals, k, getattr(player.internals, k) + 1)
add_internal(h, k) == [h EXCEPT !.internals[k] = @ + 1]

\* apply_post_race_growth: the horse after the call and the applied points.
apply_post_race_growth(h, slot, finish_pos, d) ==
  LET zero == [stamina |-> 0, speed |-> 0, sharp |-> 0]
      first == d.u_p < growth_p(slot, finish_pos)
      h1 == IF first THEN add_internal(h, d.k1) ELSE h
      a1 == IF first THEN [zero EXCEPT ![d.k1] = @ + 1] ELSE zero
      extra_p == growth_extra_p(slot, finish_pos)
      second == extra_p # 0 /\ d.u_extra < extra_p
      h2 == IF second THEN add_internal(h1, d.k2) ELSE h1
      a2 == IF second THEN [a1 EXCEPT ![d.k2] = @ + 1] ELSE a1
  IN  [h |-> h2, applied |-> a2]

\* One apply_post_race_growth call, after the race that follows the feeding.
PostRaceGrowth ==
  /\ train.phase = "grow"
  /\ \E d \in GrowCases :
       LET r == apply_post_race_growth(player, d.slot, d.finish_pos, d)
       IN  /\ player' = r.h
           /\ train' = [called |-> TRUE, phase |-> "train", meets |-> train.meets + 1,
                        applied |-> r.applied]
  /\ UNCHANGED <<breed, pool, field, gates, records, timed, sim, world, main>>

InitCareer ==
  /\ player \in Players
  /\ train = [called |-> FALSE, phase |-> "train", meets |-> 0]
  /\ breed = [called |-> FALSE]
  /\ pool = [built |-> FALSE]
  /\ field = [called |-> FALSE, calls |-> 0]
  /\ gates = [called |-> FALSE]
  /\ records = << >>
  /\ timed = [called |-> FALSE]
  /\ sim = [called |-> FALSE]
  /\ world = [loaded |-> FALSE]
  /\ main = [pc |-> "off"]

NextCareer == NoTraining \/ ApplyTraining \/ ApplyFeeding \/ PostRaceGrowth

SpecCareer == InitCareer /\ [][NextCareer]_vars

(***************************************************************************)
(* Claims about training and feeding, checked under SpecCareer              *)
(***************************************************************************)
\* C7: starting from externals in [8,48], after every training and feeding
\* call each of the six externals of the horse is still in [8,48].
C7_ExternalsStayInRange ==
  \A k \in ExternalKey : player.externals[k] >= 8 /\ player.externals[k] <= 48

\* A feeding that follows a training, both having changed stats, with a stat
\* held at 48 by the upper clamp and a stat held at 8 by the lower clamp.
C7_Witness ==
  /\ train.called /\ train.chosen # ""
  /\ train.training_index >= 0
  /\ player.externals # train.before
  /\ \E k \in ExternalKey : player.externals[k] = 48 /\ train.before[k] < 48
  /\ \E k \in ExternalKey : player.externals[k] = 8

\* C15: a training step and a feeding step leave the horse's style, internals
\* and surface affinity as they were, and a post-race growth step leaves its
\* style, externals and surface affinity as they were.
C15_CareerStepFrames ==
  [][ /\ (train.phase \in {"train", "feed"} =>
            /\ player'.style = player.style
            /\ player'.internals = player.internals
            /\ player'.ac = player.ac)
      /\ (train.phase = "grow" =>
            /\ player'.style = player.style
            /\ player'.externals = player.externals
            /\ player'.ac = player.ac) ]_vars

\* After a meet in which training and feeding moved the externals far enough
\* that the leg type derived from them is no longer the horse's style, and
\* the growth call gave two points.
C15_Witness ==
  /\ train.phase = "train" /\ train.meets = 1
  /\ train.applied.stamina + train.applied.speed + train.applied.sharp = 2
  /\ player.internals.stamina + player.internals.speed + player.internals.sharp = 92
  /\ \A p \in Players : player.externals # p.externals
  /\ derive_leg_type(player.externals) # player.style

\* The delta reported for stat k: 0 when the stat is not listed.
reported_delta(deltas, k) == IF k \in DOMAIN deltas THEN deltas[k] ELSE 0

\* C26: for every apply_training and every apply_feeding call and each of
\* the six externals, the delta reported in the result (0 for a stat not
\* listed) is the value of the stat after the call minus its value before.
C26_ReportedDeltasAreApplied ==
  [][ (train'.called /\ train'.phase \in {"feed", "grow"}) =>
        \A k \in ExternalKey :
          reported_delta(train'.deltas, k) = player'.externals[k] - player.externals[k] ]_vars

\* A training call whose gain on a stat of 46 or more was cut down by the
\* taper and the clamp at 48.
C26_Witness ==
  /\ train.called /\ train.phase = "feed"
  /\ \E k \in ExternalKey :
       train.before[k] >= 46 /\ train.deltas[k] = 1 /\ player.externals[k] = 48

\* A feeding call that lowered a stat and listed only the stats it changed.
C26_WitnessFeeding ==
  /\ train.called /\ train.phase = "grow"
  /\ \E k \in DOMAIN train.deltas : train.deltas[k] < 0
  /\ DOMAIN train.deltas # ExternalKey

(***************************************************************************)
(* Timed races on one record table                                          *)
(***************************************************************************)
MaxRaces == 3

\* course, distance and surface of the races run.
Races ==
  { [course_code |-> "EC", distance |-> 1600, surface |-> "TURF"],
    [course_code |-> "CC", distance |-> 1200, surface |-> "DIRT"] }

\* n runners in finish order, the first with score lead over the others.
Field(n, lead) ==
  [i \in 1..n |-> [id |-> cpu_id(1, i - 1), score |-> IF i = 1 THEN lead ELSE 0]]

\* Finish orders with their scores, best first: a spread field, a level
\* field, and fields of nine and twelve with one runner far ahead.
FinishOrders ==
  { [i \in 1..3 |-> [id |-> cpu_id(1, i - 1), score |-> 7 - 2 * i]],
    Field(2, 0), Field(9, 10), Field(12, 10) }

\* The record table at the start: none on file, or the defaults.
RecordTables ==
  { << >>,
    (<<"EC", 1600, "TURF">> :> [time_seconds |-> 93500, holder |-> "(Default Nat Rec)"]) }

\* One timed_results call.
TimedResults ==
  /\ timed.races < MaxRaces
  /\ \E race \in Races, condition \in Condition, finish \in FinishOrders :
       LET r == timed_results(race, condition, finish, records)
       IN  /\ records' = r.recs
           /\ timed' = [called |-> TRUE, races |-> timed.races + 1, race |-> race,
                        condition |-> condition, runners |-> r.runners,
                        winner_time |-> r.winner_time,
                        record_broken |-> r.record_broken,
                        record_entry |-> r.record_entry, rec |-> r.rec]
  /\ UNCHANGED <<breed, pool, field, gates, player, train, sim, world, main>>

InitRecords ==
  /\ records \in RecordTables
  /\ timed = [called |-> FALSE, races |-> 0]
  /\ breed = [called |-> FALSE]
  /\ pool = [built |-> FALSE]
  /\ field = [called |-> FALSE, calls |-> 0]
  /\ gates = [called |-> FALSE]
  /\ player = [born |-> FALSE]
  /\ train = [called |-> FALSE]
  /\ sim = [called |-> FALSE]
  /\ world = [loaded |-> FALSE]
  /\ main = [pc |-> "off"]

NextRecords == TimedResults

SpecRecords == InitRecords /\ [][NextRecords]_vars

(***************************************************************************)
(* Claims about the record table, checked under SpecRecords                 *)
(***************************************************************************)
\* C8: in every timed_results call, a key already in the record table stays
\* in it and its time does not increase; its entry changes only if the
\* call's condition is the fastest one of the surface and the winning time
\* is more than 0.10 s below the stored time; under any other condition
\* every existing entry is unchanged and record_broken is false.
C8_RecordOnlyLowered ==
  [][ \A k \in DOMAIN records :
        /\ k \in DOMAIN records'
        /\ records'[k].time_seconds <= records[k].time_seconds
        /\ records'[k] # records[k] =>
             /\ k = record_key(timed'.race)
             /\ timed'.condition = condition_order(timed'.race.surface)[1]
             /\ timed'.winner_time < records[k].time_seconds - 100
             /\ records'[k].time_seconds = timed'.winner_time
        /\ timed'.condition # condition_order(timed'.race.surface)[1] =>
             records'[k] = records[k] /\ ~timed'.record_broken ]_vars

\* A second race on a key whose record an earlier race already lowered, and
\* which lowers it again.
C8_Witness ==
  /\ timed.called /\ timed.races >= 2
  /\ timed.record_broken
  /\ timed.rec.time_seconds
       < par_time_seconds(timed.race.distance, timed.race.surface) - 700
  /\ timed.winner_time < timed.rec.time_seconds - 100
  /\ records[record_key(timed.race)].time_seconds = timed.winner_time
  /\ records[record_key(timed.race)].holder = timed.runners[1].horse_id

\* C14: in the result of a timed_results call, with rec the record time of
\* the race's key when the call starts (the par time when none is on file),
\* winner_time is the time of the runner placed first and lies in
\* [rec - 0.25, rec + 8.00]; every runner's time is at least winner_time and
\* at most 10.0 above it; lengths_behind is that gap divided by 0.20, so it
\* is 0 for the runner placed first.
C14_TimesWithinBands ==
  timed.called =>
    LET rs == timed.runners
        w == timed.winner_time
        rec == timed.rec.time_seconds
    IN  /\ w = rs[1].time_seconds
        /\ rec - 250 <= w /\ w <= rec + 8000
        /\ \A i \in 1..Len(rs) :
             /\ 0 <= rs[i].time_seconds - w
             /\ rs[i].time_seconds - w <= 10000
             /\ rs[i].lengths_behind = (rs[i].time_seconds - w) * 5
        /\ rs[1].lengths_behind = 0

\* A race whose fastest raw time was below the band: the winner is timed at
\* rec - 0.25 and the last runner is behind.
C14_Witness ==
  /\ timed.called
  /\ Len(timed.runners) >= 9
  /\ timed.winner_time = timed.rec.time_seconds - 250
  /\ timed.runners[Len(timed.runners)].lengths_behind > 0


(***************************************************************************)
(* race_engine.py: the race simulation.  Phase values, scores, weights and *)
(* probabilities are in thousandths, as are the values rng.random() yields.*)
(***************************************************************************)

\* The product of two quantities in thousandths.
mul_milli(a, b) == (a * b) \div 1000

\* (sprint, mile, stayer)
distance_profile(distance_m) ==
  IF distance_m <= 1400 THEN <<750, 250, 0>>
  ELSE IF distance_m <= 2000 THEN <<300, 550, 150>>
  ELSE IF distance_m <= 2600 THEN <<150, 350, 500>>
  ELSE <<50, 250, 700>>

\* a * sprint + b * mile + c * stayer, for coefficients a, b, c in
\* thousandths: the weight in units of 1e-4, in which it is exact.
dist_mix(p, a, b, c) == (a * p[1] + b * p[2] + c * p[3]) \div 100

\* The product of a quantity in thousandths and a weight in units of 1e-4.
mul_e4(a, w) == (a * w) \div 10000

ext_norm(v) == (clamp_int(v, 8, 48) - 8) * 1500

condition_heaviness(cond) ==
  CASE cond = "GOOD" -> 0
    [] cond = "GOOD_TO_SOFT" -> 350
    [] cond = "SOFT" -> 700
    [] OTHER -> 1000

\* (early_bonus, mid_bonus, late_bonus, endurance_factor) of a style, with
\* the defaults the look-ups use for a style outside the five.
style_maps(style) ==
  CASE style = "FR" -> [early |-> 3000, mid |-> 200, late |-> -1000, endurance |-> 1000]
    [] style = "SD" -> [early |-> 2000, mid |-> 400, late |-> -500, endurance |-> 900]
    [] style = "AL" -> [early |-> 500, mid |-> 600, late |-> 500, endurance |-> 750]
    [] style = "LS" -> [early |-> -500, mid |-> 200, late |-> 3000, endurance |-> 550]
    [] style = "SR" -> [early |-> -1000, mid |-> 0, late |-> 2000, endurance |-> 450]
    [] OTHER -> [early |-> 0, mid |-> 0, late |-> 0, endurance |-> 750]

gate_ideal_pos(style) ==
  IF style \in {"FR", "SD"} THEN 220
  ELSE IF style = "AL" THEN 500
  ELSE IF style = "LS" THEN 650
  ELSE 750

\* gate_pos = _clamp((gate - 1) / (n_runners - 1), 0.0, 1.0), for n_runners > 1
gate_pos_of(gate, n_runners) ==
  clamp_int(((gate - 1) * 1000) \div (n_runners - 1), 0, 1000)

gate_penalty(gate, n_runners, style, surface, p, break_skill) ==
  IF n_runners <= 1 THEN 0
  ELSE
    LET gate_pos == gate_pos_of(gate, n_runners)
        severity == mul_milli(dist_mix(p, 1900, 1200, 700),
                              IF surface = "TURF" THEN 1150 ELSE 1000)
        ideal == gate_ideal_pos(style)
        off == IF gate_pos >= ideal THEN gate_pos - ideal ELSE ideal - gate_pos
        style_pen == mul_milli(mul_e4(off, severity), 2300)
        outside_sev == mul_milli(dist_mix(p, 1400, 900, 500),
                                 IF surface = "TURF" THEN 1050 ELSE 1000)
        outside_pen == mul_milli(mul_e4(gate_pos, outside_sev), 1300)
        raw == style_pen + outside_pen
        mitig == 1000 - mul_milli(500, clamp_int(break_skill, 0, 1000))
    IN  mul_milli(raw, mitig)

turn_penalty(gate, n_runners, surface, p, corner_skill) ==
  IF n_runners <= 1 THEN 0
  ELSE
    LET gate_pos == gate_pos_of(gate, n_runners)
        sev == mul_milli(dist_mix(p, 1600, 1200, 900),
                         IF surface = "TURF" THEN 1150 ELSE 1000)
        lack == 1000 - clamp_int(corner_skill, 0, 1000)
    IN  mul_milli(mul_milli(mul_e4(gate_pos, sev), lack), 1800)

ac_category(ac) ==
  IF ac <= 63 THEN "TURF"
  ELSE IF ac <= 212 THEN "MIXED"
  ELSE IF ac <= 254 THEN "DIRT_LEAN"
  ELSE "DIRT_MAX"

surface_fit(ac, race_surface) ==
  LET cat == ac_category(ac)
  IN  CASE cat = "TURF" -> IF race_surface = "TURF" THEN 900 ELSE -600
        [] cat = "MIXED" -> 200
        [] cat = "DIRT_LEAN" -> IF race_surface = "DIRT" THEN 600 ELSE -200
        [] OTHER -> IF race_surface = "DIRT" THEN 1000 ELSE -500

\* The scalar in units of 1e-4.
surface_scalar(ac, surface, cond) ==
  LET fit == surface_fit(ac, surface)
      heavy == condition_heaviness(cond)
  IN  IF fit >= 0 THEN 10000 + fit
      ELSE 10000 + (240 * fit * (1000 + mul_milli(900, heavy))) \div 100000

\* The values rng.random() yields in the streams of the simulation.
StreamDraws == <<0, 250, 500, 750, 999>>

\* 1000 * sqrt(-2 ln(max(1e-12, u1))) * cos(2 pi u2), rounded, for u1 and u2
\* among the stream draws (row: u1, column: u2).
GaussTable ==
  << <<7434, 0, -7434, 0, 7434>>,
     <<1665, 0, -1665, 0, 1665>>,
     <<1177, 0, -1177, 0, 1177>>,
     <<759, 0, -759, 0, 759>>,
     <<45, 0, -45, 0, 45>> >>

\* _gauss(rng, 0.0, sigma) / sigma for the two draws it consumes
gauss(u1, u2) ==
  LET at(u) == CHOOSE k \in 1..Len(StreamDraws) : StreamDraws[k] = u
  IN  GaussTable[at(u1)][at(u2)]

\* rng.random() + rng.random() - 1.0
tri_noise(u1, u2) == u1 + u2 - 1000

\* The rank (1 = first) of entry i when the entries are sorted by key,
\* largest first, entries of equal key keeping their order.
rank_desc(ks, i) ==
  1 + Cardinality({j \in 1..Len(ks) : ks[j] > ks[i] \/ (ks[j] = ks[i] /\ j < i)})

\* sorted(..., reverse=True): the indices in sorted order
order_desc(ks) ==
  [k \in 1..Len(ks) |-> CHOOSE i \in 1..Len(ks) : rank_desc(ks, i) = k]

pace_hotness(early_potentials) ==
  LET n == Len(early_potentials)
      idx == [i \in 1..n |-> i]
      mean == SumSeq(early_potentials, idx, 1) \div n
      \* squared deviations, in units of 1e-4 to stay within 32 bits
      sq == [i \in 1..n |-> (((early_potentials[i] - mean) \div 2)
                               * ((early_potentials[i] - mean) \div 2)) \div 25]
      var == SumSeq(sq, idx, 1) \div n
      \* the standard deviation in thousandths
      sd == IF var <= 21474836 THEN isqrt(var * 100) ELSE isqrt(var) * 10
      ord == order_desc(early_potentials)
      top_mean == (early_potentials[ord[1]] + early_potentials[ord[2]]
                     + early_potentials[ord[3]]) \div 3
  IN  IF n < 3 THEN 0
      ELSE IF sd = 0 THEN 0
      ELSE clamp_int(((top_mean - mean) * 1000) \div sd - 250, 0, 2000)

\* (early, mid, late); u is the stream of the horse's generator.
early_mid_late_base(h, p, gate, n_runners, surface, u) ==
  LET st == h.internals.stamina * 1000
      sp == h.internals.speed * 1000
      sh == h.internals.sharp * 1000
      start == ext_norm(h.externals.start)
      corner == ext_norm(h.externals.corner)
      oob == ext_norm(h.externals.oob)
      comp == ext_norm(h.externals.competing)
      ten == ext_norm(h.externals.tenacious)
      spur == ext_norm(h.externals.spurt)
      early_i == (600 * sp + 400 * sh) \div 1000
      early_e == (650 * start + 350 * oob) \div 1000
      mid_i == (450 * sp + 250 * sh + 300 * st) \div 1000
      mid_e == (550 * comp + 450 * corner) \div 1000
      late_i == (550 * st + 300 * sp + 150 * sh) \div 1000
      late_e == (550 * spur + 450 * ten) \div 1000
      bonus == style_maps(h.style)
      break_skill == (600 * start + 400 * oob) \div 60000
      gp == gate_penalty(gate, n_runners, h.style, surface, p, break_skill)
      cp == turn_penalty(gate, n_runners, surface, p, corner \div 60)
      early == (450 * early_i + 550 * early_e) \div 1000 + bonus.early
                 - mul_e4(gp, dist_mix(p, 750, 400, 200))
                 + mul_e4(tri_noise(u[1], u[2]), dist_mix(p, 1200, 850, 600))
      mid == (550 * mid_e + 450 * mid_i) \div 1000 + bonus.mid
               - mul_e4(gp, dist_mix(p, 250, 400, 350)) - cp
      late == (550 * late_e + 450 * late_i) \div 1000 + bonus.late
  IN  <<early, mid, late>>


\* The body of the scoring loop for one horse: its score.  u is the stream
\* of the generator the loop creates for the horse.
horse_score(h, phase, rank, gate, p, surface, condition, pace_hot, u) ==
  LET heavy == condition_heaviness(condition)
      st == h.internals.stamina * 1000
      sp == h.internals.speed * 1000
      sh == h.internals.sharp * 1000
      oob == ext_norm(h.externals.oob)
      comp == ext_norm(h.externals.competing)
      ten == ext_norm(h.externals.tenacious)
      is_closer == h.style \in {"LS", "SR"} \/ rank >= 8
      \* in units of 1e-4
      traffic_prob ==
        clamp_int(1200 + dist_mix(p, 60, 80, 100)
                    + (IF is_closer THEN 1000 ELSE 0)
                    + (IF surface = "DIRT" /\ heavy >= 700 THEN 500 ELSE 0)
                    + (IF gate <= 4 THEN 700 ELSE IF gate <= 8 THEN 300 ELSE 0)
                    - (oob * 180) \div 6000 - (comp * 80) \div 6000,
                  0, 5500)
      stuck == u[1] * 10 < traffic_prob
      penalty == mul_milli(1500 + mul_milli(u[2], 2500), 1000 - (oob * 550) \div 60000)
      cut_through == ~stuck /\ is_closer /\ oob >= 45000
      cut_chance == 1200 + dist_mix(p, 0, 80, 60)
      slingshot == cut_through /\ u[2] * 10 < cut_chance
      \* the position in the stream of the draw the noise starts at
      next == IF stuck THEN 3 ELSE IF slingshot THEN 4 ELSE IF cut_through THEN 3 ELSE 2
      early == phase[1]
      mid == phase[2] - (IF stuck THEN mul_milli(penalty, 250) ELSE 0)
      late == phase[3]
                - (IF stuck THEN mul_e4(penalty, dist_mix(p, 650, 550, 450)) ELSE 0)
                + (IF slingshot THEN 1000 + mul_milli(u[3], 1500) ELSE 0)
      pos_fac == IF rank <= 2 THEN 1000
                 ELSE IF rank <= 4 THEN 850
                 ELSE IF rank <= 6 THEN 650
                 ELSE IF rank <= 9 THEN 400
                 ELSE 250
      endurance == style_maps(h.style).endurance
      dist_fac == dist_mix(p, 300, 700, 1000)
      energy == (550 * st + 450 * ten) \div 1000
      energy_def == (Max2(0, 32000 - energy) * 1000) \div 32000
      pace_fade ==
        mul_milli(mul_e4(mul_milli(mul_milli(pace_hot, pos_fac), endurance), dist_fac),
                  1500 + mul_milli(2500, energy_def))
      sprinter_apt == (550 * sp + 450 * sh) \div 1000
      mismatch == Max2(0, sprinter_apt - st)
      dist_fade ==
        mul_milli(mul_e4(mul_milli(mismatch \div 40, endurance),
                         dist_mix(p, 200, 800, 1200)), 2800)
      handling == (450 * st + 550 * ten) \div 1000
      going_adj == mul_milli(mul_milli(heavy, (handling - 30000) \div 30), 2000)
      w_early == dist_mix(p, 450, 300, 200)
      w_mid == dist_mix(p, 300, 350, 350)
      w_late == dist_mix(p, 250, 350, 450)
      score == mul_e4(early, w_early) + mul_e4(mid, w_mid) + mul_e4(late, w_late)
                 + going_adj - (pace_fade + dist_fade)
      sigma == dist_mix(p, 950, 750, 600)
  IN  (score * surface_scalar(h.ac, surface, condition)) \div 10000
        + mul_e4(gauss(u[next], u[next + 1]), sigma)
        + mul_milli(tri_noise(u[next + 2], u[next + 3]), 250)

\* int(gate_by_id.get(h.id, 1))
gate_of(gate_by_id, id) == IF id \in DOMAIN gate_by_id THEN gate_by_id[id] ELSE 1

\* The first loop over the runners: the phases of runners 1..i.
RECURSIVE phase_by_id(_, _, _, _, _)
phase_by_id(runners, race_meta, gate_by_id, streams, i) ==
  IF i = 0 THEN << >>
  ELSE Append(phase_by_id(runners, race_meta, gate_by_id, streams, i - 1),
              early_mid_late_base(runners[i], distance_profile(race_meta.distance),
                                  gate_of(gate_by_id, runners[i].id), Len(runners),
                                  race_meta.surface, streams[runners[i].id]))

\* The second loop over the runners: the scores of runners 1..i.  Its
\* generator for a horse has the seed of the first loop's, so the same stream.
RECURSIVE scores_upto(_, _, _, _, _, _, _, _)
scores_upto(runners, race_meta, condition, gate_by_id, streams, phases, pace_hot, i) ==
  IF i = 0 THEN << >>
  ELSE Append(scores_upto(runners, race_meta, condition, gate_by_id, streams,
                          phases, pace_hot, i - 1),
              horse_score(runners[i], phases[i],
                          rank_desc([k \in 1..Len(phases) |-> phases[k][1]], i),
                          gate_of(gate_by_id, runners[i].id),
                          distance_profile(race_meta.distance), race_meta.surface,
                          condition, pace_hot, streams[runners[i].id]))

\* hash64(seed, meet_iter, course_code, distance, surface, condition): the
\* digest is a function of the parts alone, so the parts stand for it.
race_base(seed, meet_iter, race_meta, condition) ==
  <<seed, meet_iter, race_meta.course_code, race_meta.distance, race_meta.surface,
    condition>>

\* A number that every part of the base enters, by which the streams of the
\* generators seeded from the base are chosen.
base_code(base) ==
  base[1] + base[2] + base[4] \div 100
    + (CASE base[3] = "CC" -> 1 [] base[3] = "EC" -> 2 [] base[3] = "NP" -> 3 [] OTHER -> 0)
    + (IF base[5] = "TURF" THEN 0 ELSE 1)
    + condition_heaviness(base[6]) \div 350

\* The streams the horse generators can yield.
HorseStreams ==
  << <<0, 500, 250, 750, 999, 0, 500>>,
     <<999, 0, 500, 250, 0, 750, 999>>,
     <<500, 999, 999, 500, 250, 500, 500>> >>

\* A stream that depends on more than the seed of the generator: on the
\* number of races timed so far as well.
horse_stream_by_history(base, id) ==
  HorseStreams[((base_code(base) + id[2] + id[3] + timed.races) % 3) + 1]

\* The stream of RNG(hash64(base, h.id, "HORSE")).
horse_stream(base, id) ==
  HorseStreams[((base_code(base) + id[2] + id[3]) % 3) + 1]

streams_of(runners, base) ==
  [id \in {runners[i].id : i \in 1..Len(runners)} |-> horse_stream(base, id)]

\* The stream of gate_rng = RNG(hash64(base, "GATE")).
gate_stream(base) == [k \in 1..12 |-> IF base_code(base) % 2 = 0 THEN 0 ELSE 500]

\* run_race_sim; gate_arg.given is FALSE for gate_by_id=None.
run_race_sim(seed, meet_iter, race_meta, condition, player_horse, cpu11, gate_arg) ==
  LET runners == <<player_horse>> \o cpu11
      n == Len(runners)
      base == race_base(seed, meet_iter, race_meta, condition)
      gate_by_id == IF gate_arg.given THEN gate_arg.map
                    ELSE draw_gates(runners, gate_stream(base))
      streams == streams_of(runners, base)
      phases == phase_by_id(runners, race_meta, gate_by_id, streams, n)
      pace_hot == pace_hotness([i \in 1..n |-> phases[i][1]])
      by_runner == scores_upto(runners, race_meta, condition, gate_by_id, streams,
                               phases, pace_hot, n)
      finish == order_desc(by_runner)
      finish_ids == [k \in 1..n |-> runners[finish[k]].id]
      purse == race_meta.winner_purse
      payout_list == <<purse, Trunc(purse * 3, 10), Trunc(purse * 2, 10)>>
  IN  [status |-> "returned",
       scores |-> [id \in {runners[i].id : i \in 1..n} |->
                     by_runner[CHOOSE i \in 1..n : runners[i].id = id]],
       finish_order |-> finish_ids,
       payouts |-> [id \in {finish_ids[k] : k \in 1..Min2(3, n)} |->
                      payout_list[CHOOSE k \in 1..Min2(3, n) : finish_ids[k] = id]],
       payouts_by_pos |-> payout_list,
       gates |-> gate_by_id]


(***************************************************************************)
(* The calls of run_race_sim.                                              *)
(***************************************************************************)
\* The sizes of the fields run: the player alone, a short field, and the
\* player with eleven others.
SimSizes == {1, 4, 12}

SimVariants == {0, 1}

player_id == <<"PLAYER", 0, 1>>

SimStyles == <<"FR", "SD", "AL", "LS", "SR">>

SimAcs == <<30, 100, 230, 255>>

\* Runner i of a field (0 is the player), its stats spread over the styles,
\* the surface preferences and the stat ranges, the externals of a runner
\* summing to 160 at most.
SimRunner(i, variant) ==
  [id |-> IF i = 0 THEN player_id ELSE cpu_id(1, i - 1),
   style |-> SimStyles[((i + 2 * variant) % 5) + 1],
   ac |-> SimAcs[((i + variant) % 4) + 1],
   internals |-> [stamina |-> 24 + ((5 * i + 3 * variant) % 14),
                  speed |-> 22 + ((7 * i + variant) % 17),
                  sharp |-> 20 + ((3 * i + 5 * variant) % 19)],
   externals |-> [start |-> 8 + ((7 * i + 5 * variant + 23) % 29),
                  corner |-> 8 + ((11 * i + 3 * variant + 7) % 29),
                  oob |-> 12 + ((13 * i + 7 * variant + 6) % 31),
                  competing |-> 8 + ((17 * i + variant + 22) % 29),
                  tenacious |-> 8 + ((19 * i + 2 * variant + 29) % 29),
                  spurt |-> 8 + ((23 * i + 11 * variant + 25) % 29)]]

SimField(n, variant) == [i \in 1..n |-> SimRunner(i - 1, variant)]

SimRaces ==
  { [course_code |-> "CC", distance |-> 1200, surface |-> "DIRT", winner_purse |-> 100000],
    [course_code |-> "EC", distance |-> 1600, surface |-> "TURF", winner_purse |-> 940000],
    [course_code |-> "NP", distance |-> 2500, surface |-> "TURF", winner_purse |-> 200000],
    [course_code |-> "CC", distance |-> 3000, surface |-> "DIRT", winner_purse |-> 200000] }

\* The gate maps handed to the simulation: none (it draws the gates itself),
\* a permutation, and maps that are not a permutation of 1..N: one without
\* the player's id, one giving every runner gate 1, one with a gate beyond N
\* and one with a gate below 1.
GateKinds == {"none", "reversed", "missing", "duplicate", "outside", "below"}

gate_map(kind, runners) ==
  LET n == Len(runners)
      ids == {runners[i].id : i \in 1..n}
      at(id) == CHOOSE i \in 1..n : runners[i].id = id
  IN  CASE kind = "none" -> [given |-> FALSE]
        [] kind = "reversed" -> [given |-> TRUE, map |-> [id \in ids |-> n + 1 - at(id)]]
        [] kind = "missing" ->
             [given |-> TRUE, map |-> [id \in ids \ {player_id} |-> at(id)]]
        [] kind = "duplicate" -> [given |-> TRUE, map |-> [id \in ids |-> 1]]
        [] kind = "outside" ->
             [given |-> TRUE,
              map |-> [id \in ids |-> IF id = player_id THEN n + 7 ELSE at(id)]]
        [] OTHER ->
             [given |-> TRUE,
              map |-> [id \in ids |-> IF id = player_id THEN -2 ELSE at(id)]]

\* gate_by_id assigns the runners the gates 1..N, one each.
is_gate_permutation(runners, gate_by_id) ==
  LET n == Len(runners)
      ids == {runners[i].id : i \in 1..n}
  IN  /\ ids \subseteq DOMAIN gate_by_id
      /\ \A id \in ids : gate_by_id[id] \in 1..n
      /\ \A a, b \in ids : a # b => gate_by_id[a] # gate_by_id[b]

\* The global seeds and the iteration counters of the calls.
SimSeeds == {7, 8, 9}

MeetIters == {1, 2}

SimArgs ==
  { [race_meta |-> r, condition |-> c, runners |-> SimField(n, v),
     gate_arg |-> gate_map(k, SimField(n, v)), seed |-> sd, meet_iter |-> mi] :
      r \in SimRaces, c \in Condition, n \in SimSizes, v \in SimVariants,
      k \in GateKinds, sd \in SimSeeds, mi \in MeetIters }

RunRaceSim ==
  /\ ~sim.called
  /\ LET runners == sim.args.runners
         res == run_race_sim(sim.args.seed, sim.args.meet_iter, sim.args.race_meta,
                             sim.args.condition, runners[1],
                             SubSeq(runners, 2, Len(runners)), sim.args.gate_arg)
     IN  sim' = [called |-> TRUE, args |-> sim.args, status |-> res.status,
                 scores |-> res.scores, finish_order |-> res.finish_order,
                 payouts |-> res.payouts, payouts_by_pos |-> res.payouts_by_pos,
                 gates |-> res.gates]
  /\ UNCHANGED <<breed, pool, field, gates, player, train, records, timed, world, main>>

InitRace ==
  /\ sim \in {[called |-> FALSE, args |-> a] : a \in SimArgs}
  /\ world = [loaded |-> FALSE]
  /\ main = [pc |-> "off"]
  /\ breed = [called |-> FALSE]
  /\ pool = [built |-> FALSE]
  /\ field = [called |-> FALSE, calls |-> 0]
  /\ gates = [called |-> FALSE]
  /\ player = [born |-> FALSE]
  /\ train = [called |-> FALSE]
  /\ records = << >>
  /\ timed = [called |-> FALSE, races |-> 0]

NextRace == RunRaceSim

SpecRace == InitRace /\ [][NextRace]_vars

\* C9: a call of run_race_sim with a gate map that is not a permutation of
\* 1..N over the runners (an id missing, a gate given twice, or a gate
\* outside 1..N) ends in an error and returns no scores.
C9_BadGateMapRejected ==
  (sim.called /\ sim.args.gate_arg.given
     /\ ~is_gate_permutation(sim.args.runners, sim.args.gate_arg.map))
    => (sim.status = "error" /\ DOMAIN sim.scores = {})

\* The seed parts of the generator the phase loop makes for a runner, and of
\* the one the scoring loop makes for it.
phase_hrng_seed(base, id) == <<base, id, "HORSE">>

score_hrng_seed(base, id) == <<base, id, "HORSE">>

\* A draw is a value of a stream: the seed of its generator and its position
\* counted from the creation of the generator.  _tri_noise takes the first
\* two values of the phase generator, the traffic roll the first value of
\* the scoring generator.
break_variance_draws(base, id) == {<<phase_hrng_seed(base, id), k>> : k \in {1, 2}}

traffic_roll_draw(base, id) == <<score_hrng_seed(base, id), 1>>

\* C19: within one run_race_sim call, for each competitor, the draws of the
\* break-variance noise of the phase build-up are not stream values that the
\* traffic roll of the scoring also uses.
C19_NoDrawFeedsTwoEffects ==
  sim.called =>
    LET a == sim.args
        base == race_base(a.seed, a.meet_iter, a.race_meta, a.condition)
    IN  \A i \in 1..Len(a.runners) :
          traffic_roll_draw(base, a.runners[i].id)
            \notin break_variance_draws(base, a.runners[i].id)


(***************************************************************************)
(* Two calls of run_race_sim with the same arguments, a race being timed   *)
(* and the record table updated at any point around them.                  *)
(***************************************************************************)
\* Full fields with a drawn or a well-formed gate map, over the mile.
ReplayArgs ==
  { a \in SimArgs :
      /\ Len(a.runners) = 12
      /\ a.race_meta.distance = 1600
      /\ a.seed = 7
      /\ (a.gate_arg.given => is_gate_permutation(a.runners, a.gate_arg.map)) }

\* The second call, with the arguments of the first.
RunRaceSimAgain ==
  /\ sim.called
  /\ "again" \notin DOMAIN sim
  /\ LET runners == sim.args.runners
         res == run_race_sim(sim.args.seed, sim.args.meet_iter, sim.args.race_meta,
                             sim.args.condition, runners[1],
                             SubSeq(runners, 2, Len(runners)), sim.args.gate_arg)
     IN  sim' = sim @@ [again |-> [scores |-> res.scores,
                                   finish_order |-> res.finish_order,
                                   gates |-> res.gates]]
  /\ UNCHANGED <<breed, pool, field, gates, player, train, records, timed, world, main>>

\* A race timed, and the records updated, before, between or after the calls.
TimedBetween == ~timed.called /\ TimedResults

InitReplay ==
  /\ sim \in {[called |-> FALSE, args |-> a] : a \in ReplayArgs}
  /\ world = [loaded |-> FALSE]
  /\ main = [pc |-> "off"]
  /\ records \in RecordTables
  /\ timed = [called |-> FALSE, races |-> 0]
  /\ breed = [called |-> FALSE]
  /\ pool = [built |-> FALSE]
  /\ field = [called |-> FALSE, calls |-> 0]
  /\ gates = [called |-> FALSE]
  /\ player = [born |-> FALSE]
  /\ train = [called |-> FALSE]

NextReplay == RunRaceSim \/ TimedBetween \/ RunRaceSimAgain

SpecReplay == InitReplay /\ [][NextReplay]_vars

LegVals == {20, 21, 23, 24, 28}

\* Values of CORNER, below, among and above the compared stats.
LegCorners == {8, 22, 48}

LegExternals ==
  { [start |-> a, corner |-> 22, oob |-> b, competing |-> c, tenacious |-> d, spurt |-> f] :
      a \in LegVals, b \in LegVals, c \in LegVals, d \in LegVals, f \in LegVals }

\* derive_leg_type on the externals, and on the same externals with another
\* CORNER.
DeriveLegType ==
  /\ ~player.born
  /\ \E corner \in LegCorners :
       player' = [born |-> TRUE, externals |-> player.externals,
                  style |-> derive_leg_type(player.externals),
                  corner |-> corner,
                  style_other_corner |->
                    derive_leg_type([player.externals EXCEPT !.corner = corner])]
  /\ UNCHANGED <<breed, pool, field, gates, train, records, timed, sim, world, main>>

InitLegType ==
  /\ player \in {[born |-> FALSE, externals |-> e] : e \in LegExternals}
  /\ train = [called |-> FALSE]
  /\ breed = [called |-> FALSE]
  /\ pool = [built |-> FALSE]
  /\ field = [called |-> FALSE, calls |-> 0]
  /\ gates = [called |-> FALSE]
  /\ records = << >>
  /\ timed = [called |-> FALSE]
  /\ sim = [called |-> FALSE]
  /\ world = [loaded |-> FALSE]
  /\ main = [pc |-> "off"]

NextLegType == DeriveLegType

SpecLegType == InitLegType /\ [][NextLegType]_vars

\* C16: the leg type is AL exactly when no two of start, oob, competing,
\* tenacious and spurt differ by more than 3; otherwise it is FR, SD, LS or SR
\* when 0, 1, 2 or at least 3 of the other four stats are strictly above
\* start; it is always one of the five tags and does not depend on corner.
C16_LegTypeRule ==
  player.born =>
    LET e == player.externals
        five == {"start", "oob", "competing", "tenacious", "spurt"}
        close == \A a \in five, b \in five : e[a] - e[b] <= 3
        above == {k \in five \ {"start"} : e[k] > e.start}
    IN  /\ (player.style = "AL") <=> close
        /\ ~close =>
             /\ (Cardinality(above) = 0 => player.style = "FR")
             /\ (Cardinality(above) = 1 => player.style = "SD")
             /\ (Cardinality(above) = 2 => player.style = "LS")
             /\ (Cardinality(above) >= 3 => player.style = "SR")
        /\ player.style \in {"FR", "SD", "LS", "SR", "AL"}
        /\ player.style_other_corner = player.style

\* A spread of exactly 4 with start tied for second place behind one stat,
\* derived again with a CORNER above every compared stat.
C16_Witness ==
  /\ player.born /\ player.style = "SD" /\ player.corner = 48
  /\ player.externals.start = 24 /\ player.externals.oob = 28
  /\ player.externals.competing = 24 /\ player.externals.tenacious = 24
  /\ player.externals.spurt = 24

(***************************************************************************)
(* Statistics of a population of horses                                     *)
(***************************************************************************)
MaxPop == 4

\* Sums of the internals in the populations tried.
PopSums == {80, 90, 91}

PopHorse(v) == [internals |-> [stamina |-> v - 60, speed |-> 30, sharp |-> 30]]

RECURSIVE Populations(_)
Populations(n) ==
  IF n = 0 THEN {<< >>}
  ELSE Populations(n - 1)
         \cup {Append(hs, PopHorse(v)) : hs \in {x \in Populations(n - 1) : Len(x) = n - 1},
                                         v \in PopSums}

\* One compute_pool_int_stats call: the divisor of both divisions, mu and sd
\* in thousandths.
ComputePoolIntStats ==
  /\ ~pool.built
  /\ LET stats == compute_pool_int_stats(pool.horses)
     IN  pool' = [built |-> TRUE, horses |-> pool.horses,
                  divisor |-> stats.n,
                  mu_milli |-> (stats.total * 1000) \div stats.n,
                  sd_milli |-> pool_int_sd_milli(stats)]
  /\ UNCHANGED <<breed, field, gates, player, train, records, timed, sim, world, main>>

InitStats ==
  /\ pool \in {[built |-> FALSE, horses |-> hs] : hs \in Populations(MaxPop)}
  /\ player = [born |-> FALSE]
  /\ train = [called |-> FALSE]
  /\ breed = [called |-> FALSE]
  /\ field = [called |-> FALSE, calls |-> 0]
  /\ gates = [called |-> FALSE]
  /\ records = << >>
  /\ timed = [called |-> FALSE]
  /\ sim = [called |-> FALSE]
  /\ world = [loaded |-> FALSE]
  /\ main = [pc |-> "off"]

NextStats == ComputePoolIntStats

SpecStats == InitStats /\ [][NextStats]_vars

uniform(horses) ==
  \A i \in 1..Len(horses), j \in 1..Len(horses) : int_sum(horses[i]) = int_sum(horses[j])

\* C18: on an empty population, on a population of one and on a population
\* whose horses all have the same sum of internals, compute_pool_int_stats
\* divides by a non-zero count and returns a strictly positive sd.
C18_DegenerateSdPositive ==
  (pool.built /\ uniform(pool.horses)) =>
    /\ pool.divisor >= 1
    /\ pool.sd_milli > 0

\* The three cases: no horse, one horse, several horses of the same sum.
C18_Witness ==
  /\ pool.built /\ Len(pool.horses) = MaxPop /\ uniform(pool.horses)
  /\ pool.sd_milli = 1000 /\ pool.mu_milli = 91000

C18_WitnessEmpty ==
  pool.built /\ Len(pool.horses) = 0 /\ pool.sd_milli = 1000 /\ pool.mu_milli = 0

(***************************************************************************)
(* The race program of main: the rounds of a run, the races of a round,    *)
(* the prompts before a race and the world pointer.  world is the          *)
(* WorldState object, main the locals of main with the two files it writes.*)
(* stdin is a terminal.                                                    *)
(***************************************************************************)
G1_GATE == 1000000

\* --max-rounds of the run.
MaxRounds == 2

\* len(schedule), the rounds of the program, and len(round_schedule).
ScheduleRounds == 16

RoundRaces == 6

\* payout of a race or of the gambling chance: none, or a purse.
RacePayouts == {0, 100000, 500000}

\* The world as loaded: at the start of the program, in the middle of a round,
\* before the G1 of a round, in the first and in the last round.
ProgramWorlds ==
  { [current_round |-> r, cycle |-> 0, race_index |-> i] : r \in {1, 16}, i \in {0, 3, 5} }

\* save_now(next_round): the save file after the call.
save_now(m, next_round) ==
  [m EXCEPT !.save = [written |-> TRUE, round_num |-> next_round,
                      meet_iter |-> m.meet_iter, earnings |-> m.earnings,
                      races_run |-> m.races_run, retired |-> m.retired_flag,
                      retired_reason |-> m.retired_reason]]

\* save_world_state(world_state_path, world): the world file after the call.
save_world_state(m, w) == [m EXCEPT !.world_file = w]

\* advance_world_round(state, 1)
advance_world_round(w) ==
  IF w.current_round + 1 > 16
  THEN [current_round |-> 1, cycle |-> w.cycle + 1, race_index |-> 0]
  ELSE [current_round |-> w.current_round + 1, cycle |-> w.cycle, race_index |-> 0]

\* The world pointer after the race at race_idx: the next race of the round,
\* or the next round after the last race.
pointer_after_race(w, race_idx) ==
  IF race_idx >= RoundRaces - 1 THEN advance_world_round(w)
  ELSE [w EXCEPT !.race_index = race_idx + 1]

\* The start of the loop body without the G1 gate.
enter_race_ungated(m, w, race_idx) ==
  [m |-> [m EXCEPT !.race_idx = race_idx, !.pc = "confirm"],
   w |-> [w EXCEPT !.race_index = race_idx]]

\* The start of the loop body for the race at race_idx, up to its prompt: the
\* G1 gate prompt for the sixth race when the earnings are short, else the
\* confirmation prompt.
enter_race(m, w, race_idx) ==
  [m |-> [m EXCEPT !.race_idx = race_idx,
                   !.pc = IF race_idx = RoundRaces - 1 /\ m.earnings < G1_GATE
                          THEN "g1gate" ELSE "confirm"],
   w |-> [w EXCEPT !.race_index = race_idx]]

\* The start of a round, up to the prompt of its first race.
start_round(m, w) ==
  IF w.current_round = m.current_round
  THEN enter_race(m, w, Max2(0, Min2(5, w.race_index)))
  ELSE LET w1 == [w EXCEPT !.current_round = m.current_round, !.race_index = 0]
       IN  enter_race(save_world_state(m, w1), w1, 0)

\* After the retirement prompt of a round: meet tick and save for the next
\* round; for a retired horse the archived copy, the removal of the save file
\* and the end of main, else the next round of the run or the end of main.
finish_round(m, w) ==
  LET next_round == IF m.current_round + 1 > 16 THEN 1 ELSE m.current_round + 1
      m1 == save_now([m EXCEPT !.meet_iter = @ + 1], next_round)
  IN  IF m.retired_flag
      THEN [m |-> [m1 EXCEPT !.archive = [m1.save EXCEPT !.retired = TRUE],
                             !.save.written = FALSE,
                             !.pc = "returned"],
            w |-> w]
      ELSE [m |-> [m1 EXCEPT !.current_round = next_round,
                             !.rounds_left = @ - 1,
                             !.pc = IF m.stop_after_round \/ m.rounds_left - 1 = 0
                                    THEN "returned" ELSE "round"],
            w |-> w]

\* After the race loop of a round: the round summary, then the retirement
\* prompt for a horse of 20 races or more that is not retired, else the rest
\* of the round.
end_round(m, w, stop_after_round) ==
  LET m0 == [m EXCEPT !.stop_after_round = stop_after_round]
  IN  IF ~m.retired_flag /\ m.races_run >= 20
      THEN [m |-> [m0 EXCEPT !.pc = "retire"], w |-> w]
      ELSE finish_round(m0, w)

\* after_race without the forced retirement.
after_race_never_forced(m, w, forced) ==
  LET m1 == save_now(m, m.current_round)
      w1 == pointer_after_race(w, m.race_idx)
      m2 == save_world_state(m1, w1)
  IN  IF m.race_idx >= RoundRaces - 1 THEN end_round(m2, w1, FALSE)
      ELSE enter_race(m2, w1, m.race_idx + 1)

\* The end of the loop body after a race or a gambling chance: save, advance
\* the world pointer, save the world, then the forced retirement, the next
\* race or the end of the round.
after_race(m, w, forced) ==
  LET m1 == save_now(m, m.current_round)
      w1 == pointer_after_race(w, m.race_idx)
      m2 == save_world_state(m1, w1)
  IN  IF forced
      THEN end_round([m2 EXCEPT !.retired_flag = TRUE, !.retired_reason = "forced_64"],
                     w1, TRUE)
      ELSE IF m.race_idx >= RoundRaces - 1 THEN end_round(m2, w1, FALSE)
      ELSE enter_race(m2, w1, m.race_idx + 1)

\* The answer at "Next up: ROUND n".
AnswerRound ==
  /\ main.pc = "round"
  /\ \E cmd \in {"", "q"} :
       LET m == [main EXCEPT !.cmd = cmd]
           r == IF cmd = "q" THEN [m |-> [m EXCEPT !.pc = "returned"], w |-> world]
                ELSE start_round(m, world)
       IN  main' = r.m /\ world' = r.w
  /\ UNCHANGED <<breed, pool, field, gates, player, train, records, timed, sim>>

\* Defaults of run_gambling_chance.
GAMBLE_STAKE == 25000

GAMBLE_ROUND_UNIT == 10000

\* The probability of the picked horse in the softmax, in millionths.
GambleProbs == {100, 83333, 500000, 1000000}

\* run_gambling_chance(...).payout for a pick of probability p_ppm: odds are
\* (1 / max(1e-6, p)) * (1 - 0.15), the payout is stake * odds rounded to the
\* unit, and nothing for a lost pick.  stake * 0.85 * 1e6 / (p_ppm * unit) is
\* written with both terms divided by 100.
gambling_payout(won, p_ppm) ==
  IF won
  THEN RoundHalfEven(GAMBLE_STAKE * 85 * 100,
                     Max2(1, p_ppm) * (GAMBLE_ROUND_UNIT \div 100)) * GAMBLE_ROUND_UNIT
  ELSE 0

\* The answer at the G1 gate: quit and save, or the gambling chance.
AnswerG1Gate ==
  /\ main.pc = "g1gate"
  /\ \E cmd \in {"", "q"}, won \in BOOLEAN, p_ppm \in GambleProbs :
       LET m == [main EXCEPT !.cmd = cmd]
           payout == gambling_payout(won, p_ppm)
           r == IF cmd = "q"
                THEN [m |-> [save_world_state(save_now(m, m.current_round), world)
                               EXCEPT !.pc = "returned"],
                      w |-> world]
                ELSE after_race([m EXCEPT !.gambles = @ + 1,
                                          !.earnings = IF won THEN @ + payout ELSE @],
                                world, FALSE)
       IN  main' = r.m /\ world' = r.w
  /\ UNCHANGED <<breed, pool, field, gates, player, train, records, timed, sim>>

\* Q at the race confirmation prompt: save and leave.
QuitAtConfirm ==
  /\ main.pc = "confirm"
  /\ main' = [save_world_state(save_now([main EXCEPT !.cmd = "q"], main.current_round), world)
                EXCEPT !.pc = "returned"]
  /\ UNCHANGED <<breed, pool, field, gates, player, train, records, timed, sim, world>>

\* S at the race confirmation prompt.  race_idx + 1 < len(schedule) compares
\* with the number of rounds; the branch taken then reads world.pointer,
\* which WorldState does not have: AttributeError leaves main.
SkipRace ==
  /\ main.pc = "confirm"
  /\ LET m == [main EXCEPT !.cmd = "s"]
         r == IF main.race_idx + 1 < ScheduleRounds
              THEN [m |-> [m EXCEPT !.pc = "raised"], w |-> world]
              ELSE end_round(save_world_state(save_now(m, m.current_round), world),
                             world, FALSE)
     IN  main' = r.m /\ world' = r.w
  /\ UNCHANGED <<breed, pool, field, gates, player, train, records, timed, sim>>

\* Enter at the race confirmation prompt: the race is simulated and paid.
RunRace ==
  /\ main.pc = "confirm"
  /\ \E payout \in RacePayouts :
       LET m == [main EXCEPT !.cmd = "", !.sims = @ + 1,
                             !.earnings = @ + payout, !.races_run = @ + 1,
                             !.career_log = @ + 1]
           r == after_race(m, world, m.races_run >= 64)
       IN  main' = r.m /\ world' = r.w
  /\ UNCHANGED <<breed, pool, field, gates, player, train, records, timed, sim>>

\* The answer at "You may retire now. Retire horse? (y/N)".
AnswerRetire ==
  /\ main.pc = "retire"
  /\ \E ans \in {"y", ""} :
       LET m == IF ans = "y"
                THEN [main EXCEPT !.cmd = ans, !.retired_flag = TRUE,
                                  !.retired_reason = "player_choice",
                                  !.stop_after_round = TRUE]
                ELSE [main EXCEPT !.cmd = ans]
           r == finish_round(m, world)
       IN  main' = r.m /\ world' = r.w
  /\ UNCHANGED <<breed, pool, field, gates, player, train, records, timed, sim>>

\* races_run of the career at the start of the run: a new horse, a horse one
\* race before the retirement prompt, a horse two races before the limit.
CareerStarts == {0, 19, 62}

\* main after the first save_now(start_round).
InitProgram ==
  /\ world \in ProgramWorlds
  /\ main \in { save_now([pc |-> "round", cmd |-> "", current_round |-> world.current_round,
                          race_idx |-> 0, rounds_left |-> n, earnings |-> e, races_run |-> k,
                          meet_iter |-> 1, sims |-> 0, gambles |-> 0,
                          career_log |-> k, world_file |-> world,
                          retired_flag |-> FALSE, retired_reason |-> "",
                          stop_after_round |-> FALSE, archive |-> [written |-> FALSE],
                          save |-> [written |-> FALSE]],
                         world.current_round) :
                n \in 1..MaxRounds, e \in {0, G1_GATE}, k \in CareerStarts }
  /\ breed = [called |-> FALSE]
  /\ pool = [built |-> FALSE]
  /\ field = [called |-> FALSE, calls |-> 0]
  /\ gates = [called |-> FALSE]
  /\ player = [born |-> FALSE]
  /\ train = [called |-> FALSE]
  /\ records = << >>
  /\ timed = [called |-> FALSE]
  /\ sim = [called |-> FALSE]

NextProgram ==
  AnswerRound \/ AnswerG1Gate \/ QuitAtConfirm \/ SkipRace \/ RunRace \/ AnswerRetire

SpecProgram == InitProgram /\ [][NextProgram]_vars

\* C24: in a career that starts with races_run below 64, races_run never
\* exceeds 64 and grows by exactly 1 with each simulated race and not
\* otherwise; the race that brings it to 64 leaves the horse flagged retired
\* with reason forced_64, main returned with no further race simulated, a
\* copy of the final state in the retired directory and no active save file.
C24_ForcedRetirementAt64 ==
  [][ /\ main'.races_run <= 64
      /\ main'.sims - main.sims \in {0, 1}
      /\ main'.races_run = main.races_run + (main'.sims - main.sims)
      /\ main.races_run >= 64 => main'.sims = main.sims
      /\ (main.races_run < 64 /\ main'.races_run = 64) =>
            /\ main'.retired_flag /\ main'.retired_reason = "forced_64"
            /\ main'.pc = "returned"
            /\ main'.archive.written /\ main'.archive.retired
            /\ main'.archive.retired_reason = "forced_64"
            /\ main'.archive.races_run = 64
            /\ ~main'.save.written ]_vars

\* The career has reached 64 races in the run, in the middle of a round.
C24_Witness ==
  /\ main.races_run = 64 /\ main.sims = 2 /\ main.retired_flag
  /\ main.pc = "returned" /\ main.race_idx < RoundRaces - 1

C25_WitnessG1 ==
  main.sims > 0 /\ main.race_idx = RoundRaces - 1 /\ main.pc = "returned" /\ main.gambles = 0
  /\ main.cmd = "" /\ main.rounds_left = 0

\* C20: when the player answers S at the race confirmation prompt, the race
\* is not simulated, earnings and races_run stay as they were, the world
\* pointer moves to the next race, the save file and the world file are
\* written, and the program is at the prompt of the next race of the round
\* (after the last race, at the end of the round) with no error raised.
C20_SkipGoesOnWithNextRace ==
  [][ (main.pc = "confirm" /\ main'.cmd = "s") =>
        /\ main'.sims = main.sims
        /\ main'.earnings = main.earnings
        /\ main'.races_run = main.races_run
        /\ world' = (IF main.race_idx >= RoundRaces - 1 THEN advance_world_round(world)
                     ELSE [world EXCEPT !.race_index = main.race_idx + 1])
        /\ main'.world_file = world'
        /\ main'.save.written
        /\ main'.pc # "raised"
        /\ (main.race_idx < RoundRaces - 1 =>
              main'.pc \in {"confirm", "g1gate"} /\ main'.race_idx = main.race_idx + 1) ]_vars

(***************************************************************************)
(* The gate draw made by the caller before run_race_sim, as main does, and *)
(* the gate draw made inside run_race_sim when no map is handed over.       *)
(***************************************************************************)
\* A base taken from another seed (not what the code does).
draw_gates_base_of_next_seed(seed, meet_iter, race_meta, condition) ==
  race_base(seed + 1, meet_iter, race_meta, condition)

\* The base draw_gates hashes from its own arguments.
draw_gates_base(seed, meet_iter, race_meta, condition) ==
  race_base(seed, meet_iter, race_meta, condition)

\* draw_gates(seed, meet_iter, race_meta, condition, runners) with its generator.
draw_gates_seeded(seed, meet_iter, race_meta, condition, runners) ==
  draw_gates(runners, gate_stream(draw_gates_base(seed, meet_iter, race_meta, condition)))

\* Calls without a gate map, of one seed.
DrawnArgs == {a \in SimArgs : ~a.gate_arg.given /\ a.seed = 7}

\* The caller draws the gates for the race.
DrawGatesForRace ==
  /\ ~gates.called
  /\ gates' = [called |-> TRUE,
               map |-> draw_gates_seeded(sim.args.seed, sim.args.meet_iter,
                                         sim.args.race_meta, sim.args.condition,
                                         sim.args.runners)]
  /\ UNCHANGED <<breed, pool, field, player, train, records, timed, sim, world, main>>

\* run_race_sim with the gates the caller drew.
RunRaceSimWithDrawnGates ==
  /\ gates.called /\ "drawn" \notin DOMAIN sim
  /\ LET runners == sim.args.runners
         res == run_race_sim(sim.args.seed, sim.args.meet_iter, sim.args.race_meta,
                             sim.args.condition, runners[1],
                             SubSeq(runners, 2, Len(runners)),
                             [given |-> TRUE, map |-> gates.map])
     IN  sim' = sim @@ [drawn |-> [scores |-> res.scores,
                                   finish_order |-> res.finish_order,
                                   gates |-> res.gates]]
  /\ UNCHANGED <<breed, pool, field, gates, player, train, records, timed, world, main>>

InitDrawn ==
  /\ sim \in {[called |-> FALSE, args |-> a] : a \in DrawnArgs}
  /\ gates = [called |-> FALSE]
  /\ world = [loaded |-> FALSE]
  /\ main = [pc |-> "off"]
  /\ breed = [called |-> FALSE]
  /\ pool = [built |-> FALSE]
  /\ field = [called |-> FALSE, calls |-> 0]
  /\ player = [born |-> FALSE]
  /\ train = [called |-> FALSE]
  /\ records = << >>
  /\ timed = [called |-> FALSE, races |-> 0]

NextDrawn == RunRaceSim \/ DrawGatesForRace \/ RunRaceSimWithDrawnGates

SpecDrawn == InitDrawn /\ [][NextDrawn]_vars

MaxSeasonRounds == 3

\* The slots of a round, in the order they are run.
RoundSlots == <<"1R", "2R", "3R", "4R", "5R", "G1">>

\* SPECIAL_ORDER[:n] with n = max(0, min(g1_wins, 3))
unlocked_specials(h) == SubSeq(SPECIAL_ORDER, 1, Max2(0, Min2(h.g1_wins, 3)))

\* apply_g1_win_rewards
apply_g1_win_rewards(h, finish_pos) ==
  IF finish_pos = 1
  THEN [h EXCEPT !.g1_wins = @ + 1, !.pending_g1_superfood = TRUE]
  ELSE h

\* force_special of build_food_offering
force_special(h, slot) ==
  Len(unlocked_specials(h)) > 0 /\ h.pending_g1_superfood /\ slot = "1R"

\* The special food build_food_offering puts into the offering, "" for none:
\* the highest unlocked one when forced, else one picked with the chance of
\* the grade (u in thousandths; none on Bad).
special_offered(h, slot, grade, u, pick) ==
  LET specials == unlocked_specials(h)
      p == CASE grade = "Perfect" -> 600 [] grade = "Cool" -> 500
             [] grade = "Great" -> 400 [] OTHER -> 300
  IN  IF force_special(h, slot) THEN specials[Len(specials)]
      ELSE IF Len(specials) > 0 /\ grade # "Bad" /\ u < p
           THEN specials[((pick - 1) % Len(specials)) + 1]
           ELSE ""

\* feeding_flow before a race: the offering is built and one of its foods is
\* fed; a special food fed gives a genetic token.
FeedingFlow ==
  /\ train.phase = "feed"
  /\ \E grade \in {"Perfect", "Good", "Bad", "None"}, u \in {0, 999}, pick \in 1..2,
        eats_special \in BOOLEAN :
       LET slot == RoundSlots[train.race]
           sp == special_offered(player, slot, grade, u, pick)
           fed == IF eats_special /\ sp # "" THEN sp ELSE "Apple"
       IN  /\ player' = [player EXCEPT !.genetic_tokens =
                           IF fed \in SeqToSet(SPECIAL_ORDER) THEN @ + 1 ELSE @]
           /\ train' = [train EXCEPT !.phase = "race", !.called = TRUE,
                                     !.forced = force_special(player, slot),
                                     !.special = sp]
  /\ UNCHANGED <<breed, pool, field, gates, records, timed, sim, world, main>>

\* The race after the feeding: in the G1 slot the gambling chance (pos 0) or
\* the race with its rewards; then the next race of the program.
RaceOfSeason ==
  /\ train.phase = "race"
  /\ \E pos \in {0, 1, 4} :
       /\ (pos = 0 => RoundSlots[train.race] = "G1")
       /\ player' = IF RoundSlots[train.race] = "G1" /\ pos > 0
                    THEN apply_g1_win_rewards(player, pos) ELSE player
       /\ train' = [train EXCEPT
                      !.phase = IF train.race = Len(RoundSlots) /\ train.round = MaxSeasonRounds
                                THEN "done" ELSE "feed",
                      !.race = IF @ = Len(RoundSlots) THEN 1 ELSE @ + 1,
                      !.round = IF train.race = Len(RoundSlots) THEN @ + 1 ELSE @]
  /\ UNCHANGED <<breed, pool, field, gates, records, timed, sim, world, main>>

InitSeason ==
  /\ player \in {[born |-> TRUE, g1_wins |-> w, pending_g1_superfood |-> FALSE,
                  genetic_tokens |-> 0] : w \in {0, 2}}
  /\ train = [called |-> FALSE, phase |-> "feed", round |-> 1, race |-> 1,
              forced |-> FALSE, special |-> ""]
  /\ world = [loaded |-> FALSE]
  /\ main = [pc |-> "off"]
  /\ breed = [called |-> FALSE]
  /\ pool = [built |-> FALSE]
  /\ field = [called |-> FALSE, calls |-> 0]
  /\ gates = [called |-> FALSE]
  /\ records = << >>
  /\ timed = [called |-> FALSE]
  /\ sim = [called |-> FALSE]

NextSeason == FeedingFlow \/ RaceOfSeason

SpecSeason == InitSeason /\ [][NextSeason]_vars

\* C22: the G1 reward is one-shot: once a 1R feeding has had the special food
\* forced into its offering, pending_g1_superfood is false again, so that a
\* later 1R feeding is forced only after another G1 win.
C22_SuperfoodOneShot ==
  (train.phase = "race" /\ train.forced) => ~player.pending_g1_superfood

\* ---------------------------------------------------------------------------
\* The world state of the race program (world.py) over one run of main: the
\* WorldState is built from the world file, or reset, and then moved by the
\* round advance and by the pointer update after each race.
\* world is the WorldState object once it exists; main.world_file is the
\* content of the world file; main.op names the last operation and
\* main.rounds its rounds argument.
\* ---------------------------------------------------------------------------

MaxCycle == 2

FileRounds == {-1, 0, 1, 7, 16, 17}
FileCycles == {-1, 0, 1}
FileIndexes == {-1, 0, 3, 5, 6}

\* What the world file can hold: nothing, text that does not parse to
\* integers, or three integers of any value.
WorldFiles ==
  { [kind |-> k, current_round |-> 1, cycle |-> 0, race_index |-> 0] :
      k \in {"missing", "corrupt"} }
  \cup
  { [kind |-> "json", current_round |-> r, cycle |-> c, race_index |-> i] :
      r \in FileRounds, c \in FileCycles, i \in FileIndexes }

\* WorldState()
WorldState == [current_round |-> 1, cycle |-> 0, race_index |-> 0]

\* load_world_state with the race_index check left out.
load_world_state_any_index(file) ==
  IF file.kind # "json" THEN WorldState
  ELSE [current_round |-> IF file.current_round < 1 \/ file.current_round > 16
                          THEN 1 ELSE file.current_round,
        cycle |-> IF file.cycle < 0 THEN 0 ELSE file.cycle,
        race_index |-> file.race_index]

\* load_world_state(path)
load_world_state(file) ==
  IF file.kind # "json" THEN WorldState
  ELSE [current_round |-> IF file.current_round < 1 \/ file.current_round > 16
                          THEN 1 ELSE file.current_round,
        cycle |-> IF file.cycle < 0 THEN 0 ELSE file.cycle,
        race_index |-> IF file.race_index < 0 \/ file.race_index > 5
                       THEN 0 ELSE file.race_index]

\* The world file written by save_world_state(path, state).
world_payload(w) ==
  [kind |-> "json", current_round |-> w.current_round, cycle |-> w.cycle,
   race_index |-> w.race_index]

\* advance_world_round(state, rounds)
RECURSIVE advance_world_rounds(_, _)
advance_world_rounds(w, rounds) ==
  IF rounds <= 0 THEN w
  ELSE advance_world_rounds(advance_world_round(w), rounds - 1)

world_exists == "current_round" \in DOMAIN world

\* main without --reset-world: world = load_world_state(world_state_path)
LoadWorldState ==
  /\ ~world_exists
  /\ world' = load_world_state(main.world_file)
  /\ main' = [main EXCEPT !.op = "load"]
  /\ UNCHANGED <<breed, pool, field, gates, player, train, records, timed, sim>>

\* main with --reset-world: world = reset_world_state(world_state_path)
ResetWorldState ==
  /\ ~world_exists
  /\ world' = WorldState
  /\ main' = [main EXCEPT !.op = "reset", !.world_file = world_payload(WorldState)]
  /\ UNCHANGED <<breed, pool, field, gates, player, train, records, timed, sim>>

\* main after loading a save whose round_num is ahead of the world; round_num
\* is a round that save_now writes.
AlignWithSave ==
  /\ world_exists
  /\ main.op \in {"load", "reset"}
  /\ \E round_num \in 1..ScheduleRounds :
       /\ round_num > world.current_round
       /\ world' = [world EXCEPT !.current_round = round_num, !.race_index = 0]
       /\ main' = [main EXCEPT !.op = "align", !.world_file = world_payload(world')]
  /\ UNCHANGED <<breed, pool, field, gates, player, train, records, timed, sim>>

\* advance_world_round(world, rounds)
AdvanceWorldRound ==
  /\ world_exists
  /\ \E rounds \in 0..2 :
       /\ advance_world_rounds(world, rounds).cycle <= MaxCycle
       /\ world' = advance_world_rounds(world, rounds)
       /\ main' = [main EXCEPT !.op = "advance", !.rounds = rounds]
  /\ UNCHANGED <<breed, pool, field, gates, player, train, records, timed, sim>>

\* main, one race of the round from the pointer on: the pointer is set to the
\* race, and after the race it moves on and is saved.
RacePointerUpdate ==
  /\ world_exists
  /\ \E race_idx \in world.race_index..(RoundRaces - 1) :
       /\ pointer_after_race(world, race_idx).cycle <= MaxCycle
       /\ world' = pointer_after_race([world EXCEPT !.race_index = race_idx], race_idx)
       /\ main' = [main EXCEPT !.op = "race", !.rounds = race_idx,
                               !.world_file = world_payload(world')]
  /\ UNCHANGED <<breed, pool, field, gates, player, train, records, timed, sim>>

InitWorld ==
  /\ world = [loaded |-> FALSE]
  /\ main \in { [pc |-> "world", op |-> "", rounds |-> 0, world_file |-> f] :
                f \in WorldFiles }
  /\ breed = [called |-> FALSE]
  /\ pool = [built |-> FALSE]
  /\ field = [called |-> FALSE, calls |-> 0]
  /\ gates = [called |-> FALSE]
  /\ player = [born |-> FALSE]
  /\ train = [called |-> FALSE]
  /\ records = << >>
  /\ timed = [called |-> FALSE]
  /\ sim = [called |-> FALSE]

NextWorld ==
  LoadWorldState \/ ResetWorldState \/ AlignWithSave \/ AdvanceWorldRound
    \/ RacePointerUpdate

SpecWorld == InitWorld /\ [][NextWorld]_vars

in_world_ranges(w) ==
  /\ 1 <= w.current_round /\ w.current_round <= 16
  /\ 0 <= w.race_index /\ w.race_index <= 5
  /\ w.cycle >= 0

C23_WitnessLoad ==
  /\ world_exists
  /\ main.op = "load"
  /\ main.world_file.kind = "json"
  /\ main.world_file.race_index > 5 /\ main.world_file.current_round > 16
  /\ main.world_file.cycle < 0

\* ---------------------------------------------------------------------------
\* The premium reward foods: one apply_feeding call with Draft Beer or a
\* genetic food, after any training and grade.
\* ---------------------------------------------------------------------------

PremiumFoods == {"Draft Beer"} \cup SeqToSet(SPECIAL_ORDER)

\* One apply_feeding call with a premium reward food.
FeedPremiumFood ==
  /\ train.phase = "reward"
  /\ \E training_index \in -1..(Len(TRAININGS) - 1), grade \in Grade,
        chosen_food \in PremiumFoods, pref_mult \in PrefMults,
        d \in {x \in CareerDraws : x.u_bt = 0} :
       /\ training_index = -1 => grade = "None"
       /\ LET t == IF training_index >= 0 THEN TRAININGS[training_index + 1]
                   ELSE [name |-> "", prim |-> << >>, sec |-> << >>]
              r == apply_feeding(player.externals, grade, t.prim, t.sec,
                                 chosen_food, pref_mult, d)
          IN  /\ player' = [player EXCEPT !.externals = r.e,
                                          !.genetic_tokens =
                                             IF chosen_food \in SeqToSet(SPECIAL_ORDER)
                                             THEN @ + 1 ELSE @]
              /\ train' = [called |-> TRUE, phase |-> "fed",
                           training_index |-> training_index, grade |-> grade,
                           before |-> player.externals, deltas |-> r.deltas,
                           chosen |-> chosen_food, pref_mult |-> pref_mult, d |-> d]
  /\ UNCHANGED <<breed, pool, field, gates, records, timed, sim, world, main>>

InitPremium ==
  /\ player \in Players
  /\ train = [called |-> FALSE, phase |-> "reward"]
  /\ breed = [called |-> FALSE]
  /\ pool = [built |-> FALSE]
  /\ field = [called |-> FALSE, calls |-> 0]
  /\ gates = [called |-> FALSE]
  /\ records = << >>
  /\ timed = [called |-> FALSE]
  /\ sim = [called |-> FALSE]
  /\ world = [loaded |-> FALSE]
  /\ main = [pc |-> "off"]

NextPremium == FeedPremiumFood

SpecPremium == InitPremium /\ [][NextPremium]_vars

\* C27: an apply_feeding call with Draft Beer or one of the three genetic
\* foods lowers no external and reports no negative delta, for every grade
\* (Bad included), every preference multiplier and every draw.
C27_PremiumFoodsNeverLower ==
  (train.called /\ train.phase = "fed") =>
    \A k \in ExternalKey :
      /\ player.externals[k] >= train.before[k]
      /\ reported_delta(train.deltas, k) >= 0

\* Draft Beer fed after a Bad training to a horse that hates it, with the
\* low budget draw: a stat went up.
C27_Witness ==
  /\ train.called /\ train.phase = "fed"
  /\ train.grade = "Bad" /\ train.chosen = "Draft Beer" /\ train.pref_mult = 7
  /\ train.d.rint = "lo"
  /\ \E k \in ExternalKey : player.externals[k] > train.before[k]

\* A genetic food fed after a Bad training.
C27_WitnessSpecial ==
  /\ train.called /\ train.phase = "fed"
  /\ train.grade = "Bad" /\ train.chosen = "Herbal Dumpling"
  /\ player.genetic_tokens = 1
  /\ \E k \in ExternalKey : player.externals[k] > train.before[k]

\* ---------------------------------------------------------------------------
\* The placing of timed_results against the finish order it is given.
\* ---------------------------------------------------------------------------

\* Runners of the large field: with this many, the time gaps behind a lone
\* leader pass the 10 s limit.
PlacingRunners == 425

\* A leader, a level field behind and a last runner, scores 3, 1 and 0.
LargeField ==
  [i \in 1..PlacingRunners |->
     [id |-> cpu_id(1, i - 1),
      score |-> IF i = 1 THEN 3 ELSE IF i = PlacingRunners THEN 0 ELSE 1]]

\* Finish orders sorted by score, best first: the orders of FinishOrders,
\* fields of every size from 2 to 12 with a leader, and the large field.
PlacingOrders ==
  FinishOrders \cup {Field(n, 10) : n \in 2..12} \cup {LargeField}

\* One timed_results call on the finish order of a race.
TimedResultsOfOrder ==
  /\ ~timed.called
  /\ \E race \in Races, condition \in Condition, finish \in PlacingOrders :
       LET r == timed_results(race, condition, finish, records)
       IN  /\ records' = r.recs
           /\ timed' = [called |-> TRUE, races |-> 1, race |-> race,
                        condition |-> condition, finish |-> finish,
                        runners |-> r.runners, winner_time |-> r.winner_time]
  /\ UNCHANGED <<breed, pool, field, gates, player, train, sim, world, main>>

InitPlacing ==
  /\ records \in RecordTables
  /\ timed = [called |-> FALSE, races |-> 0]
  /\ breed = [called |-> FALSE]
  /\ pool = [built |-> FALSE]
  /\ field = [called |-> FALSE, calls |-> 0]
  /\ gates = [called |-> FALSE]
  /\ player = [born |-> FALSE]
  /\ train = [called |-> FALSE]
  /\ sim = [called |-> FALSE]
  /\ world = [loaded |-> FALSE]
  /\ main = [pc |-> "off"]

NextPlacing == TimedResultsOfOrder

SpecPlacing == InitPlacing /\ [][NextPlacing]_vars

\* C28: for a finish order sorted by score, best first, timed_results places
\* the runner at index i (from 0) at position i + 1; the positions are 1..N;
\* the times do not decrease with the position; and a runner with a strictly
\* higher score has no strictly slower time, also among the runners whose
\* gaps are cut to 10 s.
C28_PlacingFollowsFinishOrder ==
  timed.called =>
    LET f == timed.finish
        rs == timed.runners
        n == Len(f)
    IN  /\ Len(rs) = n
        /\ \A i \in 1..n : rs[i].pos = i /\ rs[i].horse_id = f[i].id
        /\ \A i \in 1..(n - 1) : rs[i].time_seconds <= rs[i + 1].time_seconds
        /\ \A i \in 1..n : \A j \in 1..n :
             (rs[i].horse_id = f[i].id /\ rs[j].horse_id = f[j].id
                /\ f[i].score > f[j].score)
               => rs[i].time_seconds <= rs[j].time_seconds

\* The large field: two runners of different scores both timed 10 s behind
\* the winner.
C28_Witness ==
  /\ timed.called
  /\ Len(timed.finish) = PlacingRunners
  /\ \E i \in 2..(PlacingRunners - 1) :
       /\ timed.finish[i].score > timed.finish[PlacingRunners].score
       /\ timed.runners[i].time_seconds = timed.winner_time + 10000
       /\ timed.runners[PlacingRunners].time_seconds = timed.winner_time + 10000

====
